---- MODULE Spec2Model ----
(***************************************************************************)
(* netex-siri2lc: the namespace-agnostic tree accessor (xml_utils.py), the *)
(* URI strategy (uri.py) and the timetable extractor (netex_parser.py).    *)
(*                                                                         *)
(* Strings are sequences of one-character strings, so that trimming,       *)
(* digit tests, slicing and concatenation are computed and not assumed.    *)
(* A parsed document is the sequence of its nodes in document order, each  *)
(* node carrying its nesting depth; the descendants of node i are the      *)
(* nodes that follow it while their depth stays greater than its own.      *)
(***************************************************************************)
EXTENDS Integers, Sequences, FiniteSets, TLC

VARIABLES
    tree,          \* accessor harness: the parsed document queried
    xcall,         \* accessor harness: the last accessor call and its result
    raw,           \* URI harness: the JSON configuration document
    uri_strategy,  \* the URIStrategy object (base_uri, templates)
    calls,         \* URI harness: the wrapper calls made so far, with outcomes
    paths,         \* parse_netex: the list of input files
    pc,            \* parse_netex: position of the call
    pathIdx,       \* parse_netex: index of the file being processed
    journeys,      \* parse_netex: ServiceJourney elements of the open file
    jIdx,          \* parse_netex: index of the next journey
    connections,   \* parse_netex: the local list being built
    origin,        \* history: <<file, journey, pair>> of every connection
    error,         \* parse_netex: the exception that left the call, if any
    results,       \* outcomes of the completed calls, in call order
    runsLeft,      \* calls still to be made on this input
    service_date,  \* parse_siri_et: the service_date argument of the call
    positions,     \* parse_siri_vm: the local list being built
    alerts         \* parse_siri_sx: the local list being built

vars == <<tree, xcall, raw, uri_strategy, calls, paths, pc, pathIdx, journeys,
          jIdx, connections, origin, error, results, runsLeft, service_date,
          positions, alerts>>

----------------------------------------------------------------------------
(* Bounds of the model                                                     *)

MaxNodes == 3
MaxFiles == 2
MaxJourneys == 2
MaxVisits == 3
MaxCalls == 2
MaxEntries == 2

----------------------------------------------------------------------------
(* Strings                                                                 *)

\* Python None: a one-element sequence whose element is no character.
None == <<"None">>

Truthy(s) == s # None /\ s # <<>>

\* `a or b` on optional strings
Or(a, b) == IF Truthy(a) THEN a ELSE b

DecimalChars == {"0", "1", "2", "3", "4", "5", "6", "7", "8", "9"}

\* Characters str.isdigit accepts and int() rejects (superscript two).
OtherDigitChars == {"^2"}

WhitespaceChars == {" "}

RECURSIVE LStrip(_)
LStrip(s) ==
    IF s # <<>> /\ Head(s) \in WhitespaceChars THEN LStrip(Tail(s)) ELSE s

RECURSIVE RStrip(_)
RStrip(s) ==
    IF s # <<>> /\ s[Len(s)] \in WhitespaceChars
    THEN RStrip(SubSeq(s, 1, Len(s) - 1))
    ELSE s

\* str.strip()
Strip(s) == RStrip(LStrip(s))

\* str.isdigit(): non-empty and every character a digit character
IsDigit(s) ==
    /\ s # <<>>
    /\ \A i \in 1..Len(s) : s[i] \in DecimalChars \cup OtherDigitChars

\* the strings int() converts (among those isdigit accepts)
IntParses(s) == s # <<>> /\ \A i \in 1..Len(s) : s[i] \in DecimalChars

DigitValue(c) ==
    CASE c = "0" -> 0 [] c = "1" -> 1 [] c = "2" -> 2 [] c = "3" -> 3
      [] c = "4" -> 4 [] c = "5" -> 5 [] c = "6" -> 6 [] c = "7" -> 7
      [] c = "8" -> 8 [] c = "9" -> 9

RECURSIVE IntOf(_)
IntOf(s) ==
    IF s = <<>> THEN 0
    ELSE 10 * IntOf(SubSeq(s, 1, Len(s) - 1)) + DigitValue(s[Len(s)])

DigitChar(d) ==
    CASE d = 0 -> "0" [] d = 1 -> "1" [] d = 2 -> "2" [] d = 3 -> "3"
      [] d = 4 -> "4" [] d = 5 -> "5" [] d = 6 -> "6" [] d = 7 -> "7"
      [] d = 8 -> "8" [] d = 9 -> "9"

\* str(n) for n >= 0
RECURSIVE StrOfInt(_)
StrOfInt(n) ==
    IF n < 10 THEN <<DigitChar(n)>>
    ELSE StrOfInt(n \div 10) \o <<DigitChar(n % 10)>>

Range(s) == {s[i] : i \in 1..Len(s)}

----------------------------------------------------------------------------
(* Parsed documents                                                        *)

\* A tag is its namespace URI (or None) and its local name; a comment or a
\* processing instruction has a tag that is not a string.
Tag(ns, name) == [str |-> TRUE, ns |-> ns, name |-> name]
NonStrTag == [str |-> FALSE, ns |-> None, name |-> ""]

NetexNs == <<"n">>

Element(tag, depth, ref, id, order, text) ==
    [tag |-> tag, depth |-> depth, ref |-> ref, id |-> id, order |-> order,
     text |-> text]

\* the absent element (find_first returning None); nodes are numbered from 1
NoElement == 0

LXML_AVAILABLE == TRUE

local_name(tag) == IF ~tag.str THEN "" ELSE tag.name

\* the last node of the subtree of e, scanning from node j
RECURSIVE SubtreeEnd(_, _, _)
SubtreeEnd(doc, e, j) ==
    IF j < Len(doc) /\ doc[j + 1].depth > doc[e].depth
    THEN SubtreeEnd(doc, e, j + 1) ELSE j

\* elem.iter(): the element itself and its descendants, in document order
Iter(doc, e) == e..SubtreeEnd(doc, e, e)

\* what the XPath .//* selects from elem: descendant elements only
DescendantElements(doc, e) == {j \in Iter(doc, e) \ {e} : doc[j].tag.str}

\* elem.xpath raises on an expression that does not parse: an empty
\* candidate list yields the predicate [] .
XPathRaises(names) == names = <<>>

\* the first node among j..last whose local name is one of the names
RECURSIVE FirstIn(_, _, _, _)
FirstIn(doc, j, last, names_set) ==
    IF j > last THEN NoElement
    ELSE IF local_name(doc[j].tag) \in names_set THEN j
    ELSE FirstIn(doc, j + 1, last, names_set)

find_first_candidate_order(doc, e, names) ==
    LET hit(n) == FirstIn(doc, e + 1, SubtreeEnd(doc, e, e), {names[n]})
        found == {n \in 1..Len(names) : hit(n) # NoElement}
    IN  IF found = {} THEN NoElement
        ELSE hit(CHOOSE n \in found : \A m \in found : n <= m)

\* the XPath .//*[local-name()='n1' or ...] selects descendant elements in
\* document order (a comment has no local name to match); when the XPath
\* raises, the iteration starts at elem itself
find_first(doc, e, names) ==
    IF LXML_AVAILABLE /\ ~XPathRaises(names)
    THEN FirstIn(doc, e + 1, SubtreeEnd(doc, e, e), Range(names))
    ELSE FirstIn(doc, e, SubtreeEnd(doc, e, e), Range(names))

\* iter_elements(root, name) as a list in document order
RECURSIVE SetToSeq(_)
SetToSeq(S) ==
    IF S = {} THEN <<>>
    ELSE LET m == CHOOSE x \in S : \A y \in S : x <= y
         IN  <<m>> \o SetToSeq(S \ {m})

\* the concatenation of a list of lists
RECURSIVE Flatten(_)
Flatten(lists) == IF lists = <<>> THEN <<>> ELSE Head(lists) \o Flatten(Tail(lists))

iter_elements(doc, e, name) ==
    SetToSeq({j \in DescendantElements(doc, e) : local_name(doc[j].tag) = name})

find_text(doc, e, names) ==
    LET child == find_first(doc, e, names)
    IN  IF child = NoElement THEN None
        ELSE LET text == IF Truthy(doc[child].text)
                         THEN Strip(doc[child].text) ELSE None
             IN  IF Truthy(text) THEN text ELSE None

find_ref_ref_if_present(doc, e, names) ==
    LET child == find_first(doc, e, names)
    IN  IF child = NoElement THEN None
        ELSE IF doc[child].ref # None THEN doc[child].ref
        ELSE IF doc[child].id # None THEN doc[child].id
        ELSE IF Truthy(doc[child].text) THEN Strip(doc[child].text) ELSE None

find_ref(doc, e, names) ==
    LET child == find_first(doc, e, names)
    IN  IF child = NoElement THEN None
        ELSE LET ref == Or(doc[child].ref, doc[child].id)
             IN  IF Truthy(ref) THEN ref
                 ELSE IF Truthy(doc[child].text)
                      THEN Strip(doc[child].text) ELSE None

----------------------------------------------------------------------------
(* URI strategy (uri.py)                                                   *)
(*                                                                         *)
(* A text is a sequence of atoms: single characters, and, between the      *)
(* atoms "{" and "}", a replacement field name written as one atom.        *)
(* A JSON value is a string, an object (a list of key/value entries in     *)
(* document order) or null.                                                *)

JStr(text) == [kind |-> "string", str |-> text, obj |-> <<>>]
JObj(entries) == [kind |-> "object", str |-> <<>>, obj |-> entries]
JNull == [kind |-> "null", str |-> <<>>, obj |-> <<>>]

\* truth value of a JSON value in Python
JTruthy(v) ==
    \/ v.kind = "string" /\ v.str # <<>>
    \/ v.kind = "object" /\ v.obj # <<>>

DEFAULT_TEMPLATES ==
    [k \in {"stop_place", "quay", "line", "service_journey", "connection", "operator"} |->
        CASE k = "stop_place" ->
               JStr(<<"{", "base_uri", "}", "/", "s", "t", "o", "p", "s", "/",
                      "{", "stop_id", "}">>)
          [] k = "quay" ->
               JStr(<<"{", "base_uri", "}", "/", "s", "t", "o", "p", "s", "/",
                      "{", "stop_place_id", "}", "/", "q", "u", "a", "y", "s", "/",
                      "{", "quay_id", "}">>)
          [] k = "line" ->
               JStr(<<"{", "base_uri", "}", "/", "l", "i", "n", "e", "s", "/",
                      "{", "line_id", "}">>)
          [] k = "service_journey" ->
               JStr(<<"{", "base_uri", "}", "/", "j", "o", "u", "r", "n", "e", "y", "s", "/",
                      "{", "service_journey_id", "}">>)
          [] k = "connection" ->
               JStr(<<"{", "base_uri", "}", "/", "c", "o", "n", "n", "e", "c", "t", "i",
                      "o", "n", "s", "/", "{", "departure_date", "}", "/",
                      "{", "service_journey_id", "}", "/", "{", "sequence", "}">>)
          [] k = "operator" ->
               JStr(<<"{", "base_uri", "}", "/", "o", "p", "e", "r", "a", "t", "o", "r", "s", "/",
                      "{", "operator_id", "}">>)]

KEY_ALIASES ==
    [k \in {"baseUri", "stopPlace", "serviceJourney"} |->
        CASE k = "baseUri" -> "base_uri"
          [] k = "stopPlace" -> "stop_place"
          [] k = "serviceJourney" -> "service_journey"]

\* the dataclass default of URIStrategy.base_uri, "http://transport.example.org"
DefaultBaseUri == <<"h", "t", "t", "p", ":", "/", "/", "t">>

URIStrategy(base_uri, templates) == [base_uri |-> base_uri, templates |-> templates]

\* no strategy constructed yet
NoStrategy == URIStrategy(None, [k \in {} |-> JNull])

\* dict.get(key) on a JSON object: the value of the entry with that key
JGet(entries, key) ==
    LET at == {i \in 1..Len(entries) : entries[i].key = key}
    IN  IF at = {} THEN JNull ELSE entries[CHOOSE i \in at : TRUE].value

\* templates[key] = value
Put(templates, key, value) ==
    [k \in DOMAIN templates \cup {key} |-> IF k = key THEN value ELSE templates[k]]

Normalized(key) == IF key \in DOMAIN KEY_ALIASES THEN KEY_ALIASES[key] ELSE key

RECURSIVE MergeTemplates_no_alias(_, _, _)
MergeTemplates_no_alias(templates, items, i) ==
    IF i > Len(items) THEN templates
    ELSE MergeTemplates_no_alias(Put(templates, items[i].key, items[i].value),
                                 items, i + 1)

RECURSIVE MergeTemplates(_, _, _)
MergeTemplates(templates, items, i) ==
    IF i > Len(items) THEN templates
    ELSE MergeTemplates(Put(templates, Normalized(items[i].key), items[i].value),
                        items, i + 1)

\* URIStrategy.from_json applied to the parsed JSON object raw
from_json(doc) ==
    LET a == JGet(doc, "baseUri")
        b == JGet(doc, "base_uri")
        base_uri == IF JTruthy(a) THEN a.str
                    ELSE IF JTruthy(b) THEN b.str ELSE DefaultBaseUri
        t == JGet(doc, "templates")
        raw_templates == IF JTruthy(t) THEN t ELSE JObj(doc)
        templates == IF raw_templates.kind = "object"
                     THEN MergeTemplates(DEFAULT_TEMPLATES, raw_templates.obj, 1)
                     ELSE DEFAULT_TEMPLATES
    IN  URIStrategy(base_uri, templates)

\* outcome of a call: the exception raised ("" for none) and the value
NoError == ""
Returned(value) == [err |-> NoError, value |-> value]
Raised(kind) == [err |-> kind, value |-> None]

\* first index >= i of atom c in t, or 0
RECURSIVE IndexFrom(_, _, _)
IndexFrom(t, c, i) ==
    IF i > Len(t) THEN 0 ELSE IF t[i] = c THEN i ELSE IndexFrom(t, c, i + 1)

\* re.sub(r"\{departureTime\\([^}]+\\)\\}", "{departureTime}", template):
\* the pattern matches  {departureTime\  one or more non-} characters  \\}
RECURSIVE ReSub(_)
ReSub(t) ==
    IF t = <<>> THEN <<>>
    ELSE LET k == IndexFrom(t, "}", 1)
             hit == /\ Len(t) >= 7
                    /\ t[1] = "{" /\ t[2] = "departureTime" /\ t[3] = "\\"
                    /\ k >= 7
                    /\ t[k - 1] = "\\" /\ t[k - 2] = "\\"
         IN  IF Head(t) # "{" THEN <<Head(t)>> \o ReSub(Tail(t))
             ELSE IF hit
             THEN <<"{", "departureTime", "}">> \o ReSub(SubSeq(t, k + 1, Len(t)))
             ELSE <<Head(t)>> \o ReSub(Tail(t))

\* str.format_map(merged) on a text
RECURSIVE FormatMap(_, _)
FormatMap(t, merged) ==
    IF t = <<>> THEN Returned(<<>>)
    ELSE IF Head(t) = "}" THEN Raised("ValueError")
    ELSE IF Head(t) = "{"
    THEN LET k == IndexFrom(t, "}", 2)
         IN  IF k = 0 THEN Raised("ValueError")
             ELSE IF k # 3 \/ t[2] \notin DOMAIN merged THEN Raised("KeyError")
             ELSE LET rest == FormatMap(SubSeq(t, k + 1, Len(t)), merged)
                  IN  IF rest.err # NoError THEN rest
                      ELSE Returned(merged[t[2]] \o rest.value)
    ELSE LET rest == FormatMap(Tail(t), merged)
         IN  IF rest.err # NoError THEN rest
             ELSE Returned(<<Head(t)>> \o rest.value)

\* URIStrategy._format(template_key, **values)
Format(self, template_key, values) ==
    LET template ==
            IF template_key \in DOMAIN self.templates THEN self.templates[template_key]
            ELSE IF template_key \in DOMAIN DEFAULT_TEMPLATES
                 THEN DEFAULT_TEMPLATES[template_key]
                 ELSE JStr(<<>>)
        merged == values @@ [k \in {"base_uri", "baseUri"} |-> self.base_uri]
    IN  IF ~JTruthy(template) THEN Raised("ValueError")
        ELSE IF template.kind # "string" THEN Raised("TypeError")
        ELSE FormatMap(ReSub(template.str), merged)

stop_first_character(self, stop_id) ==
    LET short == IF stop_id = <<>> THEN <<>> ELSE <<Head(stop_id)>>
    IN  Format(self, "stop_place",
               [k \in {"stop_id", "stopPlaceId", "stop_place_id"} |-> short])

stop(self, stop_id) ==
    Format(self, "stop_place",
           [k \in {"stop_id", "stopPlaceId", "stop_place_id"} |-> stop_id])

line(self, line_id) ==
    Format(self, "line", [k \in {"line_id", "lineId"} |-> line_id])

service_journey(self, service_journey_id) ==
    Format(self, "service_journey",
           [k \in {"service_journey_id", "serviceJourneyId"} |-> service_journey_id])

operator(self, operator_id) ==
    Format(self, "operator", [k \in {"operator_id", "operatorId"} |-> operator_id])

connection(self, departure_date, service_journey_id, sequence) ==
    Format(self, "connection",
           [k \in {"departure_date", "departureTime", "service_journey_id",
                   "serviceJourneyId", "sequence"} |->
               CASE k \in {"departure_date", "departureTime"} -> departure_date
                 [] k \in {"service_journey_id", "serviceJourneyId"} -> service_journey_id
                 [] k = "sequence" -> StrOfInt(sequence)])

----------------------------------------------------------------------------
(* Timetable extractor (netex_parser.py)                                   *)

PASSING_TIME_TAGS == {"TimetabledPassingTime", "PassingTime"}
STOP_REF_TAGS ==
    <<"StopPointRef", "ScheduledStopPointRef", "StopPointInJourneyPatternRef",
      "QuayRef", "StopPlaceRef">>
DEPARTURE_TIME_TAGS == <<"DepartureTime", "AimedDepartureTime", "ExpectedDepartureTime">>
ARRIVAL_TIME_TAGS == <<"ArrivalTime", "AimedArrivalTime", "ExpectedArrivalTime">>

\* PassingTime.sequence when it is None (a sequence number is never negative)
NoSequence == -1

PassingTime(sequence, stop_ref, departure_time, arrival_time) ==
    [sequence |-> sequence, stop_ref |-> stop_ref,
     departure_time |-> departure_time, arrival_time |-> arrival_time]

\* the fields parse_netex sets; every other field keeps its default None
Connection(id, departure_stop, arrival_stop, departure_time, arrival_time, route, trip, op) ==
    [id |-> id, departure_stop |-> departure_stop, arrival_stop |-> arrival_stop,
     departure_time |-> departure_time, arrival_time |-> arrival_time,
     route |-> route, trip |-> trip, operator |-> op]

\* str.replace(old, new) for a one-character old
RECURSIVE Replace(_, _, _)
Replace(s, old, new) ==
    IF s = <<>> THEN <<>>
    ELSE (IF Head(s) = old THEN new ELSE <<Head(s)>>) \o Replace(Tail(s), old, new)

AllDecimal(s, i, j) == \A k \in i..j : s[k] \in DecimalChars

DaysInMonth(y, m) ==
    IF m \in {4, 6, 9, 11} THEN 30
    ELSE IF m # 2 THEN 31
    ELSE IF y % 4 = 0 /\ (y % 100 # 0 \/ y % 400 = 0) THEN 29 ELSE 28

\* YYYY-MM-DD at the head of s, a real calendar date
IsoDate(s) ==
    /\ Len(s) >= 10
    /\ AllDecimal(s, 1, 4) /\ s[5] = "-" /\ AllDecimal(s, 6, 7) /\ s[8] = "-"
    /\ AllDecimal(s, 9, 10)
    /\ IntOf(SubSeq(s, 1, 4)) >= 1
    /\ IntOf(SubSeq(s, 6, 7)) \in 1..12
    /\ IntOf(SubSeq(s, 9, 10)) \in
           1..DaysInMonth(IntOf(SubSeq(s, 1, 4)), IntOf(SubSeq(s, 6, 7)))

\* +HH:MM or -HH:MM
IsoOffset(t) ==
    /\ Len(t) = 6
    /\ t[1] \in {"+", "-"}
    /\ AllDecimal(t, 2, 3) /\ t[4] = ":" /\ AllDecimal(t, 5, 6)
    /\ IntOf(SubSeq(t, 2, 3)) <= 23 /\ IntOf(SubSeq(t, 5, 6)) <= 59

\* HH[:MM[:SS[.fff[fff]]]] with no offset
IsoClock(t) ==
    /\ Len(t) \in {2, 5, 8, 12, 15}
    /\ AllDecimal(t, 1, 2) /\ IntOf(SubSeq(t, 1, 2)) <= 23
    /\ Len(t) >= 5 =>
          t[3] = ":" /\ AllDecimal(t, 4, 5) /\ IntOf(SubSeq(t, 4, 5)) <= 59
    /\ Len(t) >= 8 =>
          t[6] = ":" /\ AllDecimal(t, 7, 8) /\ IntOf(SubSeq(t, 7, 8)) <= 59
    /\ Len(t) >= 12 => t[9] = "." /\ AllDecimal(t, 10, Len(t))

\* the time part of an ISO timestamp, with or without an offset
IsoTime(t) ==
    LET sign == {i \in 1..Len(t) : t[i] \in {"+", "-"}}
        at == IF sign = {} THEN Len(t) + 1
              ELSE CHOOSE i \in sign : \A k \in sign : i <= k
    IN  /\ IsoClock(SubSeq(t, 1, at - 1))
        /\ at <= Len(t) => IsoOffset(SubSeq(t, at, Len(t)))

\* datetime.fromisoformat accepts s: YYYY-MM-DD, alone or followed by one
\* separator character and a time
FromIsoFormatAccepts(s) ==
    /\ IsoDate(s)
    /\ Len(s) # 10 => Len(s) >= 12 /\ IsoTime(SubSeq(s, 12, Len(s)))

\* _date_for_uri(time_str)
date_for_uri_no_fallback(time_str) ==
    IF ~Truthy(time_str) THEN None
    ELSE LET normalized == Replace(time_str, "Z", <<"+", "0", "0", ":", "0", "0">>)
         IN  IF FromIsoFormatAccepts(normalized)
             THEN SubSeq(normalized, 1, 4) \o SubSeq(normalized, 6, 7)
                      \o SubSeq(normalized, 9, 10)
             ELSE None

date_for_uri(time_str) ==
    IF ~Truthy(time_str) THEN None
    ELSE LET normalized == Replace(time_str, "Z", <<"+", "0", "0", ":", "0", "0">>)
         IN  IF FromIsoFormatAccepts(normalized)
             THEN SubSeq(normalized, 1, 4) \o SubSeq(normalized, 6, 7)
                      \o SubSeq(normalized, 9, 10)
             ELSE IF Len(time_str) >= 10 /\ time_str[5] = "-"
                  THEN Replace(SubSeq(time_str, 1, 10), "-", <<>>)
                  ELSE None

PlaceholderDate == <<"0", "0", "0", "0", "0", "0", "0", "0">>

\* outcome of an extraction: the exception raised ("" for none) and the list
Extracted(times) == [err |-> NoError, times |-> times]
ExtractFailed(kind) == [err |-> kind, times |-> <<>>]

\* int(text) if text and text.isdigit() else None; int() may raise ValueError
SequenceOf(text) ==
    IF Truthy(text) /\ IsDigit(text)
    THEN (IF IntParses(text) THEN Returned(IntOf(text)) ELSE Raised("ValueError"))
    ELSE Returned(NoSequence)

\* the loop of _extract_passing_times over the elements els[i..]
RECURSIVE PassingTimesFrom(_, _, _, _)
PassingTimesFrom(doc, els, i, times) ==
    IF i > Len(els) THEN Extracted(times)
    ELSE IF local_name(doc[els[i]].tag) \notin PASSING_TIME_TAGS
    THEN PassingTimesFrom(doc, els, i + 1, times)
    ELSE LET child == els[i]
             sequence == SequenceOf(find_text(doc, child, <<"SequenceNumber", "Order">>))
             stop_ref == find_ref(doc, child, STOP_REF_TAGS)
         IN  IF sequence.err # NoError THEN ExtractFailed(sequence.err)
             ELSE IF ~Truthy(stop_ref) THEN PassingTimesFrom(doc, els, i + 1, times)
             ELSE PassingTimesFrom(doc, els, i + 1,
                      Append(times,
                             PassingTime(sequence.value, stop_ref,
                                         find_text(doc, child, DEPARTURE_TIME_TAGS),
                                         find_text(doc, child, ARRIVAL_TIME_TAGS))))

CALL_TIME_TAGS ==
    <<"Time", "ArrivalTime", "DepartureTime", "AimedArrivalTime", "AimedDepartureTime">>

\* _find_call_time(call, name): the loop over the elements els[i..] of call
RECURSIVE CallTimeFrom(_, _, _, _)
CallTimeFrom(doc, els, i, name) ==
    IF i > Len(els) THEN None
    ELSE IF local_name(doc[els[i]].tag) # name THEN CallTimeFrom(doc, els, i + 1, name)
    ELSE LET value == find_text(doc, els[i], CALL_TIME_TAGS)
         IN  IF Truthy(value) THEN value ELSE CallTimeFrom(doc, els, i + 1, name)

\* list(elem.iter())
IterList(doc, e) == [k \in 1..(SubtreeEnd(doc, e, e) - e + 1) |-> e + k - 1]

find_call_time(doc, call, name) == CallTimeFrom(doc, IterList(doc, call), 1, name)

\* the loop of _extract_call_times over the elements els[i..]
RECURSIVE CallTimesFrom(_, _, _, _)
CallTimesFrom(doc, els, i, times) ==
    IF i > Len(els) THEN Extracted(times)
    ELSE IF local_name(doc[els[i]].tag) # "Call"
    THEN CallTimesFrom(doc, els, i + 1, times)
    ELSE LET call == els[i]
             order_text == Or(doc[call].order,
                              find_text(doc, call, <<"Order", "SequenceNumber">>))
             sequence == SequenceOf(order_text)
             stop_ref == find_ref(doc, call, STOP_REF_TAGS)
         IN  IF sequence.err # NoError THEN ExtractFailed(sequence.err)
             ELSE IF ~Truthy(stop_ref) THEN CallTimesFrom(doc, els, i + 1, times)
             ELSE CallTimesFrom(doc, els, i + 1,
                      Append(times,
                             PassingTime(sequence.value, stop_ref,
                                         find_call_time(doc, call, "Departure"),
                                         find_call_time(doc, call, "Arrival"))))

extract_call_times(doc, sj) ==
    CallTimesFrom(doc, IterList(doc, sj), 1, <<>>)

\* the fallback taken only when the journey holds no passing-time element
extract_passing_times_no_element(doc, sj) ==
    LET found == PassingTimesFrom(doc, IterList(doc, sj), 1, <<>>)
    IN  IF \/ found.err # NoError
           \/ \E i \in 1..Len(IterList(doc, sj)) :
                  local_name(doc[IterList(doc, sj)[i]].tag) \in PASSING_TIME_TAGS
        THEN found
        ELSE extract_call_times(doc, sj)

extract_passing_times(doc, sj) ==
    LET found == PassingTimesFrom(doc, IterList(doc, sj), 1, <<>>)
    IN  IF found.err # NoError \/ found.times # <<>> THEN found
        ELSE extract_call_times(doc, sj)

\* sorted(list, key=sequence): stable insertion of x into a sorted list
RECURSIVE InsertBySequence(_, _)
InsertBySequence(sorted, x) ==
    IF sorted = <<>> THEN <<x>>
    ELSE IF sorted[Len(sorted)].sequence <= x.sequence THEN Append(sorted, x)
    ELSE Append(InsertBySequence(SubSeq(sorted, 1, Len(sorted) - 1), x),
                sorted[Len(sorted)])

RECURSIVE SortedBySequence(_)
SortedBySequence(l) ==
    IF l = <<>> THEN <<>>
    ELSE InsertBySequence(SortedBySequence(SubSeq(l, 1, Len(l) - 1)), l[Len(l)])

sort_passing_times_document_order(passing_times) == passing_times

\* the sort applied whether or not every visit has a sequence number
sort_passing_times_unconditional(passing_times) == SortedBySequence(passing_times)

sort_passing_times(passing_times) ==
    IF \A i \in 1..Len(passing_times) : passing_times[i].sequence # NoSequence
    THEN SortedBySequence(passing_times)
    ELSE passing_times

\* departure.departure_time or departure.arrival_time
departure_time_no_fallback(pt) == pt.departure_time

departure_time_of(pt) == Or(pt.departure_time, pt.arrival_time)

\* arrival.arrival_time or arrival.departure_time
arrival_time_no_fallback(pt) == pt.arrival_time

arrival_time_of(pt) == Or(pt.arrival_time, pt.departure_time)

\* the first exception among outcomes evaluated in order, "" if none raised
RECURSIVE FirstError(_)
FirstError(outcomes) ==
    IF outcomes = <<>> THEN NoError
    ELSE IF Head(outcomes).err # NoError THEN Head(outcomes).err
    ELSE FirstError(Tail(outcomes))

\* outcome of the journey loop body: exception, connections, pair numbers
Emitted(conns, pairs) == [err |-> NoError, conns |-> conns, pairs |-> pairs]
JourneyFailed(kind) == [err |-> kind, conns |-> <<>>, pairs |-> <<>>]

\* the sequence number of a connection counted over the connections built
pair_sequence_of_emitted(idx, out) == Len(out.conns) + 1

\* idx + 1: the sequence handed to uri_strategy.connection for the pair at
\* index idx (0-based) of the loop
pair_sequence(idx, out) == idx + 1

\* the pair loop of parse_netex, lines 55-82, from index idx (0-based) on
RECURSIVE PairsFrom(_, _, _, _, _, _, _)
PairsFrom(self, service_journey_id, line_ref, operator_ref, sorted_times, idx, out) ==
    IF idx >= Len(sorted_times) - 1 THEN out
    ELSE LET departure == sorted_times[idx + 1]
             arrival == sorted_times[idx + 2]
             departure_time == departure_time_of(departure)
             arrival_time == arrival_time_of(arrival)
             next(o) == PairsFrom(self, service_journey_id, line_ref, operator_ref,
                                  sorted_times, idx + 1, o)
         IN  IF ~Truthy(departure_time) \/ ~Truthy(arrival_time) THEN next(out)
             ELSE IF ~Truthy(departure.stop_ref) \/ ~Truthy(arrival.stop_ref) THEN next(out)
             ELSE LET departure_date == Or(date_for_uri(departure_time), PlaceholderDate)
                      connection_id == connection(self, departure_date,
                                                  service_journey_id,
                                                  pair_sequence(idx, out))
                      departure_stop == stop(self, departure.stop_ref)
                      arrival_stop == stop(self, arrival.stop_ref)
                      route == IF Truthy(line_ref) THEN line(self, line_ref)
                               ELSE Returned(None)
                      trip == service_journey(self, service_journey_id)
                      op == IF Truthy(operator_ref) THEN operator(self, operator_ref)
                            ELSE Returned(None)
                      failed == FirstError(<<connection_id, departure_stop, arrival_stop,
                                             route, trip, op>>)
                  IN  IF failed # NoError THEN JourneyFailed(failed)
                      ELSE next(Emitted(
                               Append(out.conns,
                                      Connection(connection_id.value, departure_stop.value,
                                                 arrival_stop.value, departure_time,
                                                 arrival_time, route.value, trip.value,
                                                 op.value)),
                               Append(out.pairs, idx + 1)))

\* service_journey.get("id") or find_text(service_journey, [...])
journey_id(doc, sj) ==
    Or(doc[sj].id, find_text(doc, sj, <<"ServiceJourneyRef", "ServiceJourneyId", "Id">>))

\* the body of the journey loop of parse_netex, lines 40-82
ProcessJourney(self, doc, sj) ==
    LET service_journey_id == journey_id(doc, sj)
        line_ref == find_ref(doc, sj, <<"LineRef">>)
        operator_ref == find_ref(doc, sj, <<"OperatorRef", "OperatorRefStructure">>)
        passing_times == extract_passing_times(doc, sj)
    IN  IF ~Truthy(service_journey_id) THEN Emitted(<<>>, <<>>)
        ELSE IF passing_times.err # NoError THEN JourneyFailed(passing_times.err)
        ELSE IF passing_times.times = <<>> THEN Emitted(<<>>, <<>>)
        ELSE PairsFrom(self, service_journey_id, line_ref, operator_ref,
                       sort_passing_times(passing_times.times), 0, Emitted(<<>>, <<>>))

\* an input file: missing, not well-formed, or a document
File(kind, doc) == [kind |-> kind, doc |-> doc]

\* ET.parse(path): the exception it raises, "" if it returns the tree
parse_skips_bad_file(file) == NoError

parse(file) ==
    CASE file.kind = "missing" -> "OSError"
      [] file.kind = "malformed" -> "XMLSyntaxError"
      [] OTHER -> NoError

\* connections: List[Connection] = [] at the head of parse_netex
new_list_shared(previous) == previous

new_list(previous) == <<>>

\* connections.append(connection), for the connections of one journey
append_at_front(list, items) == items \o list

append(list, items) == list \o items

\* a call of parse_netex(paths, uri_strategy)
Call ==
    /\ pc \in {"idle", "returned", "raised"}
    /\ runsLeft > 0
    /\ runsLeft' = runsLeft - 1
    /\ connections' = new_list(connections)
    /\ origin' = new_list(origin)
    /\ error' = None
    /\ pathIdx' = 1 /\ jIdx' = 1 /\ journeys' = <<>>
    /\ pc' = "open"
    /\ UNCHANGED <<positions, alerts, tree, xcall, raw, uri_strategy, calls, paths, results, service_date>>

\* for path in paths: tree = ET.parse(path); the journeys of its root
OpenPath ==
    /\ pc = "open"
    /\ pathIdx <= Len(paths)
    /\ LET failed == parse(paths[pathIdx])
           found == IF paths[pathIdx].kind = "xml"
                    THEN iter_elements(paths[pathIdx].doc, 1, "ServiceJourney")
                    ELSE <<>>
       IN  IF failed # NoError
           THEN /\ pc' = "raised"
                /\ error' = <<failed>>
                /\ results' = Append(results, Raised(failed))
                /\ UNCHANGED <<pathIdx, journeys, jIdx>>
           ELSE /\ error' = error
                /\ results' = results
                /\ jIdx' = 1
                /\ IF found = <<>>
                   THEN pc' = "open" /\ pathIdx' = pathIdx + 1 /\ journeys' = <<>>
                   ELSE pc' = "journey" /\ pathIdx' = pathIdx /\ journeys' = found
    /\ UNCHANGED <<positions, alerts, tree, xcall, raw, uri_strategy, calls, paths, connections, origin,
                   runsLeft, service_date>>

\* one iteration of the loop over the ServiceJourney elements
Journey ==
    /\ pc = "journey"
    /\ \E out \in {ProcessJourney(uri_strategy, paths[pathIdx].doc, journeys[jIdx])} :
           IF out.err # NoError
           THEN /\ pc' = "raised"
                /\ error' = <<out.err>>
                /\ results' = Append(results, Raised(out.err))
                /\ UNCHANGED <<connections, origin, pathIdx, jIdx, journeys>>
           ELSE /\ connections' = append(connections, out.conns)
                /\ origin' = append(origin,
                                    [k \in 1..Len(out.pairs) |->
                                        <<pathIdx, jIdx, out.pairs[k]>>])
                /\ error' = error
                /\ results' = results
                /\ IF jIdx < Len(journeys)
                   THEN pc' = "journey" /\ jIdx' = jIdx + 1
                        /\ UNCHANGED <<pathIdx, journeys>>
                   ELSE pc' = "open" /\ jIdx' = 1 /\ pathIdx' = pathIdx + 1
                        /\ journeys' = <<>>
    /\ UNCHANGED <<positions, alerts, tree, xcall, raw, uri_strategy, calls, paths, runsLeft, service_date>>

\* return connections
Return ==
    /\ pc = "open"
    /\ pathIdx > Len(paths)
    /\ pc' = "returned"
    /\ results' = Append(results, Returned(connections))
    /\ UNCHANGED <<positions, alerts, tree, xcall, raw, uri_strategy, calls, paths, pathIdx, journeys,
                   jIdx, connections, origin, error, runsLeft, service_date>>

Next == Call \/ OpenPath \/ Journey \/ Return

----------------------------------------------------------------------------
(* Dates and times (datetime.date, datetime.time, datetime.datetime)       *)

\* n in w decimal digits, zero-padded (strftime %Y, %m, %d; isoformat)
RECURSIVE Pad(_, _)
Pad(n, w) == IF w = 0 THEN <<>> ELSE Pad(n \div 10, w - 1) \o <<DigitChar(n % 10)>>

\* a date; service_date None is the date of year 0, which no date has
Date(y, mo, d) == [y |-> y, mo |-> mo, d |-> d]
NoDate == Date(0, 0, 0)

\* a time of day: its fields, whether it carries a UTC offset, and the
\* offset in minutes
Clock(h, mi, s, us, aware, off) ==
    [h |-> h, mi |-> mi, s |-> s, us |-> us, aware |-> aware, off |-> off]

\* a datetime; None is the datetime of year 0
DateTime(y, mo, d, clock) ==
    [y |-> y, mo |-> mo, d |-> d, h |-> clock.h, mi |-> clock.mi, s |-> clock.s,
     us |-> clock.us, aware |-> clock.aware, off |-> clock.off]
NoDateTime == DateTime(0, 0, 0, Clock(0, 0, 0, 0, FALSE, 0))

\* the time parsed from a string IsoTime accepts
ParseClock(t) ==
    LET sign == {i \in 1..Len(t) : t[i] \in {"+", "-"}}
        at == IF sign = {} THEN Len(t) + 1
              ELSE CHOOSE i \in sign : \A k \in sign : i <= k
        n == at - 1
        minutes == IF at > Len(t) THEN 0
                   ELSE 60 * IntOf(SubSeq(t, at + 1, at + 2))
                        + IntOf(SubSeq(t, at + 4, at + 5))
    IN  Clock(IntOf(SubSeq(t, 1, 2)),
              IF n >= 5 THEN IntOf(SubSeq(t, 4, 5)) ELSE 0,
              IF n >= 8 THEN IntOf(SubSeq(t, 7, 8)) ELSE 0,
              IF n = 12 THEN 1000 * IntOf(SubSeq(t, 10, 12))
              ELSE IF n = 15 THEN IntOf(SubSeq(t, 10, 15)) ELSE 0,
              at <= Len(t),
              IF at <= Len(t) /\ t[at] = "-" THEN 0 - minutes ELSE minutes)

\* datetime.fromisoformat(s) for a string it accepts
FromIsoFormat(s) ==
    DateTime(IntOf(SubSeq(s, 1, 4)), IntOf(SubSeq(s, 6, 7)), IntOf(SubSeq(s, 9, 10)),
             IF Len(s) = 10 THEN Clock(0, 0, 0, 0, FALSE, 0)
             ELSE ParseClock(SubSeq(s, 12, Len(s))))

\* datetime.isoformat()
IsoFormat(dt) ==
    Pad(dt.y, 4) \o <<"-">> \o Pad(dt.mo, 2) \o <<"-">> \o Pad(dt.d, 2) \o <<"T">>
    \o Pad(dt.h, 2) \o <<":">> \o Pad(dt.mi, 2) \o <<":">> \o Pad(dt.s, 2)
    \o (IF dt.us = 0 THEN <<>> ELSE <<".">> \o Pad(dt.us, 6))
    \o (IF ~dt.aware THEN <<>>
        ELSE LET m == IF dt.off < 0 THEN 0 - dt.off ELSE dt.off
             IN  <<IF dt.off < 0 THEN "-" ELSE "+">> \o Pad(m \div 60, 2)
                 \o <<":">> \o Pad(m % 60, 2))

\* datetime.strftime("%Y%m%d")
StrfTimeYmd(dt) == Pad(dt.y, 4) \o Pad(dt.mo, 2) \o Pad(dt.d, 2)

\* date.toordinal(), counted from 2000-01-01
RECURSIVE DaysBeforeMonth(_, _)
DaysBeforeMonth(y, m) ==
    IF m = 1 THEN 0 ELSE DaysBeforeMonth(y, m - 1) + DaysInMonth(y, m - 1)

Ordinal(y, m, d) ==
    365 * (y - 2000) + ((y - 1) \div 4) - ((y - 1) \div 100) + ((y - 1) \div 400)
    - 484 + DaysBeforeMonth(y, m) + d

\* the seconds of a datetime: of its own clock if it is naive, of UTC if aware
Seconds(dt) ==
    86400 * Ordinal(dt.y, dt.mo, dt.d) + 3600 * dt.h + 60 * dt.mi + dt.s
    - 60 * dt.off

\* int((b - a).total_seconds()): truncated toward zero; subtracting a naive
\* and an aware datetime raises TypeError
DeltaSeconds(b, a) ==
    LET ds == Seconds(b) - Seconds(a)
        dus == b.us - a.us
    IN  IF ds > 0 /\ dus < 0 THEN ds - 1
        ELSE IF ds < 0 /\ dus > 0 THEN ds + 1
        ELSE ds

----------------------------------------------------------------------------
(* Estimated-timetable extractor (siri_parser.py)                          *)

EstimatedCall(stop_ref, aimed_arrival, expected_arrival, aimed_departure, expected_departure, arrival_status, departure_status) ==
    [stop_ref |-> stop_ref, aimed_arrival |-> aimed_arrival,
     expected_arrival |-> expected_arrival, aimed_departure |-> aimed_departure,
     expected_departure |-> expected_departure, arrival_status |-> arrival_status,
     departure_status |-> departure_status]

\* an Optional[int] delay
Delay(n) == [none |-> FALSE, seconds |-> n]
NoDelay == [none |-> TRUE, seconds |-> 0]

\* the Connection parse_siri_et builds: operator keeps its default None
EstimatedConnection(c, departure_delay, arrival_delay, departure_status, arrival_status) ==
    [id |-> c.id, departure_stop |-> c.departure_stop, arrival_stop |-> c.arrival_stop,
     departure_time |-> c.departure_time, arrival_time |-> c.arrival_time,
     route |-> c.route, trip |-> c.trip, operator |-> c.operator,
     departure_delay |-> departure_delay, arrival_delay |-> arrival_delay,
     departure_status |-> departure_status, arrival_status |-> arrival_status]

\* the loop of _extract_estimated_calls over journey.iter()
RECURSIVE EstimatedCallsFrom(_, _, _, _)
EstimatedCallsFrom(doc, els, i, found) ==
    IF i > Len(els) THEN found
    ELSE IF local_name(doc[els[i]].tag) # "EstimatedCall"
    THEN EstimatedCallsFrom(doc, els, i + 1, found)
    ELSE LET call == els[i]
         IN  EstimatedCallsFrom(doc, els, i + 1,
                 Append(found,
                        EstimatedCall(
                            find_ref(doc, call, <<"StopPointRef", "ScheduledStopPointRef">>),
                            find_text(doc, call, <<"AimedArrivalTime">>),
                            find_text(doc, call, <<"ExpectedArrivalTime">>),
                            find_text(doc, call, <<"AimedDepartureTime">>),
                            find_text(doc, call, <<"ExpectedDepartureTime">>),
                            find_text(doc, call, <<"ArrivalStatus">>),
                            find_text(doc, call, <<"DepartureStatus">>))))

extract_estimated_calls(doc, journey) ==
    EstimatedCallsFrom(doc, IterList(doc, journey), 1, <<>>)

\* the scheduled value preferred to the observed one
choose_time_aimed_first(expected, aimed) == Or(aimed, expected)

\* expected or aimed
choose_time(expected, aimed) == Or(expected, aimed)

\* _normalize_time: a full timestamp; else a time of day on the service
\* date, if there is one; else None
normalize_time(value, date) ==
    IF value = None THEN NoDateTime
    ELSE LET normalized == Replace(value, "Z", <<"+", "0", "0", ":", "0", "0">>)
         IN  IF FromIsoFormatAccepts(normalized) THEN FromIsoFormat(normalized)
             ELSE IF date = NoDate THEN NoDateTime
             ELSE IF IsoTime(value)
             THEN DateTime(date.y, date.mo, date.d, ParseClock(value))
             ELSE NoDateTime

\* _delay_seconds: expected minus aimed, in whole seconds
delay_seconds_aimed_minus_expected(aimed, expected, date) ==
    LET aimed_dt == normalize_time(aimed, date)
        expected_dt == normalize_time(expected, date)
    IN  IF aimed_dt = NoDateTime \/ expected_dt = NoDateTime THEN Returned(NoDelay)
        ELSE IF aimed_dt.aware # expected_dt.aware
        THEN [err |-> "TypeError", value |-> NoDelay]
        ELSE Returned(Delay(DeltaSeconds(aimed_dt, expected_dt)))

delay_seconds(aimed, expected, date) ==
    LET aimed_dt == normalize_time(aimed, date)
        expected_dt == normalize_time(expected, date)
    IN  IF aimed_dt = NoDateTime \/ expected_dt = NoDateTime THEN Returned(NoDelay)
        ELSE IF aimed_dt.aware # expected_dt.aware
        THEN [err |-> "TypeError", value |-> NoDelay]
        ELSE Returned(Delay(DeltaSeconds(expected_dt, aimed_dt)))

\* the pair loop of parse_siri_et, lines 39-75, from index idx (0-based) on
RECURSIVE EstimatedPairsFrom(_, _, _, _, _, _, _)
EstimatedPairsFrom(self, journey_ref, line_ref, estimated, date, idx, out) ==
    IF idx >= Len(estimated) - 1 THEN out
    ELSE LET departure == estimated[idx + 1]
             arrival == estimated[idx + 2]
             dep_time == choose_time(departure.expected_departure,
                                     departure.aimed_departure)
             arr_time == choose_time(arrival.expected_arrival, arrival.aimed_arrival)
             dep_dt == normalize_time(dep_time, date)
             arr_dt == normalize_time(arr_time, date)
             next(o) == EstimatedPairsFrom(self, journey_ref, line_ref, estimated,
                                           date, idx + 1, o)
         IN  IF dep_dt = NoDateTime \/ arr_dt = NoDateTime THEN next(out)
             ELSE IF ~Truthy(departure.stop_ref) \/ ~Truthy(arrival.stop_ref) THEN next(out)
             ELSE LET departure_date == StrfTimeYmd(dep_dt)
                      connection_id == connection(self, departure_date, journey_ref,
                                                  idx + 1)
                      departure_delay == delay_seconds(departure.aimed_departure,
                                                       departure.expected_departure, date)
                      arrival_delay == delay_seconds(arrival.aimed_arrival,
                                                     arrival.expected_arrival, date)
                      departure_stop == stop(self, departure.stop_ref)
                      arrival_stop == stop(self, arrival.stop_ref)
                      route == IF Truthy(line_ref) THEN line(self, line_ref)
                               ELSE Returned(None)
                      trip == service_journey(self, journey_ref)
                      failed == FirstError(<<connection_id, departure_delay,
                                             arrival_delay, departure_stop,
                                             arrival_stop, route, trip>>)
                  IN  IF failed # NoError THEN JourneyFailed(failed)
                      ELSE next(Emitted(
                               Append(out.conns,
                                      EstimatedConnection(
                                          Connection(connection_id.value,
                                                     departure_stop.value,
                                                     arrival_stop.value,
                                                     IsoFormat(dep_dt), IsoFormat(arr_dt),
                                                     route.value, trip.value, None),
                                          departure_delay.value, arrival_delay.value,
                                          departure.departure_status,
                                          arrival.arrival_status)),
                               Append(out.pairs, idx + 1)))

\* the body of the journey loop of parse_siri_et, lines 29-75
ProcessEstimatedJourney(self, doc, journey, date) ==
    LET journey_ref == find_text(doc, journey,
                                 <<"DatedVehicleJourneyRef", "VehicleJourneyRef">>)
        line_ref == find_ref(doc, journey, <<"LineRef">>)
        estimated == extract_estimated_calls(doc, journey)
    IN  IF ~Truthy(journey_ref) THEN Emitted(<<>>, <<>>)
        ELSE IF estimated = <<>> THEN Emitted(<<>>, <<>>)
        ELSE EstimatedPairsFrom(self, journey_ref, line_ref, estimated, date, 0,
                                Emitted(<<>>, <<>>))

\* the service dates a caller supplies: none, the day of the documents'
\* timestamps, and the day after
ServiceDates == {NoDate, Date(2026, 2, 5), Date(2026, 2, 6)}

\* parse_siri_et(path, uri_strategy, service_date), path being the one file
\* of paths: tree = ET.parse(path) and the journeys of its root
CallSiriEt ==
    /\ pc \in {"idle", "returned", "raised"}
    /\ runsLeft > 0
    /\ Len(paths) = 1
    /\ runsLeft' = runsLeft - 1
    /\ \E date \in ServiceDates :
          service_date' = date /\ calls' = Append(calls, date)
    /\ connections' = new_list(connections)
    /\ origin' = new_list(origin)
    /\ pathIdx' = 1 /\ jIdx' = 1
    /\ LET failed == parse(paths[1])
           found == IF paths[1].kind = "xml"
                    THEN iter_elements(paths[1].doc, 1, "EstimatedVehicleJourney")
                    ELSE <<>>
       IN  IF failed # NoError
           THEN /\ pc' = "raised"
                /\ error' = <<failed>>
                /\ results' = Append(results, Raised(failed))
                /\ journeys' = <<>>
           ELSE /\ error' = None
                /\ results' = results
                /\ journeys' = found
                /\ pc' = IF found = <<>> THEN "et_return" ELSE "et_journey"
    /\ UNCHANGED <<positions, alerts, tree, xcall, raw, uri_strategy, paths>>

\* one iteration of the loop over the EstimatedVehicleJourney elements
EstimatedJourney ==
    /\ pc = "et_journey"
    /\ \E out \in {ProcessEstimatedJourney(uri_strategy, paths[1].doc, journeys[jIdx],
                                           service_date)} :
           IF out.err # NoError
           THEN /\ pc' = "raised"
                /\ error' = <<out.err>>
                /\ results' = Append(results, Raised(out.err))
                /\ UNCHANGED <<connections, origin, jIdx>>
           ELSE /\ connections' = append(connections, out.conns)
                /\ origin' = append(origin,
                                    [k \in 1..Len(out.pairs) |->
                                        <<1, jIdx, out.pairs[k]>>])
                /\ error' = error
                /\ results' = results
                /\ jIdx' = jIdx + 1
                /\ pc' = IF jIdx < Len(journeys) THEN "et_journey" ELSE "et_return"
    /\ UNCHANGED <<positions, alerts, tree, xcall, raw, uri_strategy, calls, paths, pathIdx, journeys,
                   runsLeft, service_date>>

\* return connections
ReturnEt ==
    /\ pc = "et_return"
    /\ pc' = "returned"
    /\ results' = Append(results, Returned(connections))
    /\ UNCHANGED <<positions, alerts, tree, xcall, raw, uri_strategy, calls, paths, pathIdx, journeys,
                   jIdx, connections, origin, error, runsLeft, service_date>>

NextEt == CallSiriEt \/ EstimatedJourney \/ ReturnEt

----------------------------------------------------------------------------
(* Vehicle-monitoring extractor (siri_vm_parser.py)                        *)

\* Python's None, True and False where a field holds any of the three
PyNone == "None"
PyBool(b) == IF b THEN "True" ELSE "False"

\* str.lower() on the letters that occur in the documents
LowerChar(c) ==
    CASE c = "T" -> "t" [] c = "R" -> "r" [] c = "U" -> "u" [] c = "E" -> "e"
      [] c = "F" -> "f" [] c = "A" -> "a" [] c = "L" -> "l" [] c = "S" -> "s"
      [] c = "I" -> "i" [] c = "N" -> "n" [] c = "Y" -> "y" [] OTHER -> c

Lower(s) == [i \in 1..Len(s) |-> LowerChar(s[i])]

\* the end of the digits, single underscores between them allowed, that
\* start at position i of s; i itself if no digit is there
RECURSIVE ScanDigits(_, _)
ScanDigits(s, i) ==
    IF i > Len(s) \/ s[i] \notin DecimalChars THEN i
    ELSE IF i + 2 <= Len(s) /\ s[i + 1] = "_" /\ s[i + 2] \in DecimalChars
    THEN ScanDigits(s, i + 2)
    ELSE IF i + 1 <= Len(s) /\ s[i + 1] \in DecimalChars THEN ScanDigits(s, i + 1)
    ELSE i + 1

\* whether float(text) returns: an optional sign, then inf, infinity or nan
\* in any case, or digits with an optional point and an optional exponent
FloatAccepts(text) ==
    LET t == Strip(text)
        s == IF t # <<>> /\ Head(t) \in {"+", "-"} THEN Tail(t) ELSE t
        intEnd == ScanDigits(s, 1)
        point == intEnd <= Len(s) /\ s[intEnd] = "."
        fracStart == IF point THEN intEnd + 1 ELSE intEnd
        fracEnd == IF point THEN ScanDigits(s, fracStart) ELSE fracStart
        exponent == fracEnd <= Len(s) /\ s[fracEnd] \in {"e", "E"}
        expStart == IF fracEnd + 1 <= Len(s) /\ s[fracEnd + 1] \in {"+", "-"}
                    THEN fracEnd + 2 ELSE fracEnd + 1
        expEnd == ScanDigits(s, expStart)
    IN  \/ Lower(s) \in {<<"i", "n", "f">>, <<"n", "a", "n">>,
                         <<"i", "n", "f", "i", "n", "i", "t", "y">>}
        \/ /\ intEnd > 1 \/ fracEnd > fracStart
           /\ IF exponent THEN expEnd > expStart /\ expEnd = Len(s) + 1
              ELSE fracEnd = Len(s) + 1

\* an Optional[float]: the number is kept as the literal it was read from
Float(literal) == [none |-> FALSE, literal |-> literal]
NoFloat == [none |-> TRUE, literal |-> <<>>]

\* if text: try: x = float(text) except ValueError: pass
to_float(text) ==
    IF Truthy(text) /\ FloatAccepts(text) THEN Float(text) ELSE NoFloat

\* for child in e.iter(): if local_name(child.tag) == name: ...; break
FirstNamed(doc, e, name) ==
    LET m == {j \in Iter(doc, e) : local_name(doc[j].tag) = name}
    IN  IF m = {} THEN NoElement ELSE CHOOSE j \in m : \A k \in m : j <= k

\* the vehicle reference of the journey, else the monitoring reference or
\* item identifier of the activity
vehicle_id_no_fallback(doc, activity, journey) ==
    find_text(doc, journey, <<"VehicleRef">>)

vehicle_id_of(doc, activity, journey) ==
    LET vehicle_id == find_text(doc, journey, <<"VehicleRef">>)
    IN  IF Truthy(vehicle_id) THEN vehicle_id
        ELSE find_text(doc, activity, <<"VehicleMonitoringRef", "ItemIdentifier">>)

\* latitude and longitude of the first VehicleLocation of the journey
location_of_both_or_neither(doc, journey) ==
    LET loc == FirstNamed(doc, journey, "VehicleLocation")
        latitude == to_float(find_text(doc, loc, <<"Latitude">>))
        longitude == to_float(find_text(doc, loc, <<"Longitude">>))
    IN  IF loc = NoElement \/ latitude.none \/ longitude.none
        THEN [latitude |-> NoFloat, longitude |-> NoFloat]
        ELSE [latitude |-> latitude, longitude |-> longitude]

location_of(doc, journey) ==
    LET loc == FirstNamed(doc, journey, "VehicleLocation")
    IN  IF loc = NoElement THEN [latitude |-> NoFloat, longitude |-> NoFloat]
        ELSE [latitude |-> to_float(find_text(doc, loc, <<"Latitude">>)),
              longitude |-> to_float(find_text(doc, loc, <<"Longitude">>))]

journey_ref_of(doc, journey) ==
    LET journey_ref == find_text(doc, journey,
                                 <<"DatedVehicleJourneyRef", "VehicleJourneyRef">>)
        framed == FirstNamed(doc, journey, "FramedVehicleJourneyRef")
    IN  IF Truthy(journey_ref) \/ framed = NoElement THEN journey_ref
        ELSE find_text(doc, framed, <<"DatedVehicleJourneyRef">>)

next_stop_ref_of(doc, journey) ==
    LET onward == FirstNamed(doc, journey, "OnwardCalls")
        call == IF onward = NoElement THEN NoElement
                ELSE FirstNamed(doc, onward, "OnwardCall")
    IN  IF call = NoElement THEN None ELSE find_ref(doc, call, <<"StopPointRef">>)

\* text and text.lower() == "true":
\* a falsy text is the value itself, and find_text returns none but None
flag_of(text) ==
    IF ~Truthy(text) THEN PyNone
    ELSE PyBool(Lower(text) = <<"t", "r", "u", "e">>)

\* _parse_vehicle_activity: the list of the position built, empty for None
parse_vehicle_activity(doc, activity) ==
    LET recorded_at == find_text(doc, activity, <<"RecordedAtTime">>)
        journey == FirstNamed(doc, activity, "MonitoredVehicleJourney")
        vehicle_id == vehicle_id_of(doc, activity, journey)
        location == location_of(doc, journey)
    IN  IF ~Truthy(recorded_at) THEN <<>>
        ELSE IF journey = NoElement THEN <<>>
        ELSE IF ~Truthy(vehicle_id) THEN <<>>
        ELSE <<[vehicle_id |-> vehicle_id,
                recorded_at |-> recorded_at,
                latitude |-> location.latitude,
                longitude |-> location.longitude,
                bearing |-> to_float(find_text(doc, journey, <<"Bearing">>)),
                speed |-> NoFloat,
                delay |-> find_text(doc, journey, <<"Delay">>),
                progress_rate |-> find_text(doc, journey, <<"ProgressRate">>),
                line_ref |-> find_ref(doc, journey, <<"LineRef">>),
                journey_ref |-> journey_ref_of(doc, journey),
                operator_ref |-> find_ref(doc, journey, <<"OperatorRef">>),
                origin_name |-> find_text(doc, journey, <<"OriginName">>),
                destination_name |-> find_text(doc, journey, <<"DestinationName">>),
                destination_ref |-> find_ref(doc, journey, <<"DestinationRef">>),
                monitored |-> flag_of(find_text(doc, journey, <<"Monitored">>)),
                in_congestion |-> flag_of(find_text(doc, journey, <<"InCongestion">>)),
                current_stop_ref |-> None,
                next_stop_ref |-> next_stop_ref_of(doc, journey),
                occupancy |-> find_text(doc, journey,
                                        <<"Occupancy", "OccupancyLevel">>)]>>

\* parse_siri_vm(path, uri_strategy), path being the one file of paths:
\* tree = ET.parse(path) and the activities of its root
CallSiriVm ==
    /\ pc \in {"idle", "returned", "raised"}
    /\ runsLeft > 0
    /\ Len(paths) = 1
    /\ runsLeft' = runsLeft - 1
    /\ positions' = new_list(positions)
    /\ origin' = new_list(origin)
    /\ pathIdx' = 1 /\ jIdx' = 1
    /\ LET failed == parse(paths[1])
           found == IF paths[1].kind = "xml"
                    THEN iter_elements(paths[1].doc, 1, "VehicleActivity")
                    ELSE <<>>
       IN  IF failed # NoError
           THEN /\ pc' = "raised"
                /\ error' = <<failed>>
                /\ results' = Append(results, Raised(failed))
                /\ journeys' = <<>>
           ELSE /\ error' = None
                /\ results' = results
                /\ journeys' = found
                /\ pc' = IF found = <<>> THEN "vm_return" ELSE "vm_activity"
    /\ UNCHANGED <<tree, xcall, raw, uri_strategy, calls, paths, connections,
                   service_date, alerts>>

\* one iteration of the loop over the VehicleActivity elements
VehicleActivity ==
    /\ pc = "vm_activity"
    /\ \E position \in {parse_vehicle_activity(paths[1].doc, journeys[jIdx])} :
           /\ positions' = positions \o position
           /\ origin' = origin \o [k \in 1..Len(position) |-> <<1, jIdx, 0>>]
    /\ jIdx' = jIdx + 1
    /\ pc' = IF jIdx < Len(journeys) THEN "vm_activity" ELSE "vm_return"
    /\ UNCHANGED <<tree, xcall, raw, uri_strategy, calls, paths, pathIdx, journeys,
                   connections, error, results, runsLeft, service_date, alerts>>

\* return positions
ReturnVm ==
    /\ pc = "vm_return"
    /\ pc' = "returned"
    /\ results' = Append(results, Returned(positions))
    /\ UNCHANGED <<tree, xcall, raw, uri_strategy, calls, paths, pathIdx, journeys,
                   jIdx, connections, origin, error, runsLeft, service_date,
                   positions, alerts>>

NextVm == CallSiriVm \/ VehicleActivity \/ ReturnVm

----------------------------------------------------------------------------
(* Situation-exchange extractor (siri_sx_parser.py)                        *)

AffectedStop(stop_ref, stop_name, stop_type, latitude, longitude) ==
    [stop_ref |-> stop_ref, stop_name |-> stop_name, stop_type |-> stop_type,
     latitude |-> latitude, longitude |-> longitude]

AffectedLine(line_ref, line_name, direction_ref) ==
    [line_ref |-> line_ref, line_name |-> line_name, direction_ref |-> direction_ref]

\* for elem in e.iter(): the nodes of the subtree of e, e included, whose
\* local name is one of the names, in document order
NamedIn(doc, e, names) ==
    SetToSeq({j \in Iter(doc, e) : local_name(doc[j].tag) \in names})

\* the coordinates of the first Location element of an affected stop point
stop_location_of(doc, elem) ==
    LET loc == FirstNamed(doc, elem, "Location")
    IN  IF loc = NoElement THEN [latitude |-> NoFloat, longitude |-> NoFloat]
        ELSE [latitude |-> to_float(find_text(doc, loc, <<"Latitude">>)),
              longitude |-> to_float(find_text(doc, loc, <<"Longitude">>))]

\* the loop of _parse_affected_stops over the stop points and stop places
RECURSIVE AffectedStopsFrom(_, _, _)
AffectedStopsFrom(doc, elems, stops) ==
    IF elems = <<>> THEN stops
    ELSE LET elem == Head(elems)
             point == local_name(doc[elem].tag) = "AffectedStopPoint"
             stop_ref == IF point THEN find_ref(doc, elem, <<"StopPointRef">>)
                         ELSE find_ref(doc, elem, <<"StopPlaceRef">>)
             built == IF point
                     THEN AffectedStop(stop_ref,
                                       find_text(doc, elem, <<"StopPointName">>),
                                       find_text(doc, elem, <<"StopPointType">>),
                                       stop_location_of(doc, elem).latitude,
                                       stop_location_of(doc, elem).longitude)
                     ELSE AffectedStop(stop_ref,
                                       find_text(doc, elem, <<"StopPlaceName">>),
                                       None, NoFloat, NoFloat)
         IN  AffectedStopsFrom(doc, Tail(elems),
                               IF Truthy(stop_ref) THEN Append(stops, built) ELSE stops)

parse_affected_stops(doc, situation) ==
    AffectedStopsFrom(doc,
                      NamedIn(doc, situation, {"AffectedStopPoint", "AffectedStopPlace"}),
                      <<>>)

\* the first loop of _parse_affected_lines, over the AffectedLine elements
RECURSIVE WrappedLinesFrom(_, _, _)
WrappedLinesFrom(doc, elems, lines) ==
    IF elems = <<>> THEN lines
    ELSE LET elem == Head(elems)
             line_ref == find_ref(doc, elem, <<"LineRef">>)
             wrapped == AffectedLine(line_ref,
                                     find_text(doc, elem, <<"PublishedLineName", "LineName">>),
                                     find_ref(doc, elem, <<"DirectionRef">>))
         IN  WrappedLinesFrom(doc, Tail(elems),
                              IF Truthy(line_ref) THEN Append(lines, wrapped) ELSE lines)

\* the second loop, over the LineRef elements below the Affects elements:
\* a reference is added unless a line of the list already has it
RECURSIVE BareLinesFrom(_, _, _)
BareLinesFrom(doc, children, lines) ==
    IF children = <<>> THEN lines
    ELSE LET child == Head(children)
             raw_ref == Or(doc[child].ref, doc[child].text)
             ref == IF Truthy(raw_ref) THEN Strip(raw_ref) ELSE None
             known == \E i \in 1..Len(lines) : lines[i].line_ref = ref
         IN  BareLinesFrom(doc, Tail(children),
                           IF Truthy(ref) /\ ~known
                           THEN Append(lines, AffectedLine(ref, None, None))
                           ELSE lines)

\* the record of a LineRef element as the second loop reads it
BareLine(doc, child) ==
    LET raw_ref == Or(doc[child].ref, doc[child].text)
    IN  AffectedLine(IF Truthy(raw_ref) THEN Strip(raw_ref) ELSE None, None, None)

IsReferenced(l) == Truthy(l.line_ref)

parse_affected_lines_no_dedup(doc, situation) ==
    LET affects == NamedIn(doc, situation, {"Affects"})
        children == Flatten([i \in 1..Len(affects) |->
                                NamedIn(doc, affects[i], {"LineRef"})])
    IN  WrappedLinesFrom(doc, NamedIn(doc, situation, {"AffectedLine"}), <<>>)
        \o SelectSeq([i \in 1..Len(children) |-> BareLine(doc, children[i])],
                     IsReferenced)

parse_affected_lines_wrappers_known(doc, situation) ==
    LET affects == NamedIn(doc, situation, {"Affects"})
        children == Flatten([i \in 1..Len(affects) |->
                                NamedIn(doc, affects[i], {"LineRef"})])
        wrapped == WrappedLinesFrom(doc, NamedIn(doc, situation, {"AffectedLine"}), <<>>)
        IsNew(l) == /\ Truthy(l.line_ref)
                    /\ \A i \in 1..Len(wrapped) : wrapped[i].line_ref # l.line_ref
    IN  wrapped \o SelectSeq([i \in 1..Len(children) |-> BareLine(doc, children[i])],
                             IsNew)

parse_affected_lines(doc, situation) ==
    LET affects == NamedIn(doc, situation, {"Affects"})
        children == Flatten([i \in 1..Len(affects) |->
                                NamedIn(doc, affects[i], {"LineRef"})])
    IN  BareLinesFrom(doc, children,
                      WrappedLinesFrom(doc, NamedIn(doc, situation, {"AffectedLine"}),
                                       <<>>))

\* one Consequence element
consequence_of(doc, elem) ==
    LET blocking == FirstNamed(doc, elem, "Blocking")
        boarding == FirstNamed(doc, elem, "Boarding")
    IN  [condition |-> find_text(doc, elem, <<"Condition">>),
         severity |-> find_text(doc, elem, <<"Severity">>),
         blocking_journey_planner |->
             IF blocking = NoElement THEN PyBool(FALSE)
             ELSE flag_of(find_text(doc, blocking, <<"JourneyPlanner">>)),
         blocking_realtime |->
             IF blocking = NoElement THEN PyBool(FALSE)
             ELSE flag_of(find_text(doc, blocking, <<"RealTime">>)),
         arrival_boarding |->
             IF boarding = NoElement THEN None
             ELSE find_text(doc, boarding, <<"ArrivalBoardingActivity">>),
         departure_boarding |->
             IF boarding = NoElement THEN None
             ELSE find_text(doc, boarding, <<"DepartureBoardingActivity">>)]

parse_consequences(doc, situation) ==
    LET elems == NamedIn(doc, situation, {"Consequence"})
    IN  [i \in 1..Len(elems) |-> consequence_of(doc, elems[i])]

\* the ServiceAlert(...) that _parse_situation returns
ServiceAlert(doc, situation, situation_number, creation_time) ==
    LET period == FirstNamed(doc, situation, "ValidityPeriod")
    IN  [situation_number |-> situation_number,
         creation_time |-> creation_time,
         participant_ref |-> find_text(doc, situation, <<"ParticipantRef">>),
         version |-> find_text(doc, situation, <<"Version">>),
         progress |-> find_text(doc, situation, <<"Progress">>),
         severity |-> find_text(doc, situation, <<"Severity">>),
         summary |-> find_text(doc, situation, <<"Summary">>),
         description |-> find_text(doc, situation, <<"Description">>),
         reason |-> Or(Or(Or(find_text(doc, situation, <<"MiscellaneousReason">>),
                             find_text(doc, situation, <<"PersonnelReason">>)),
                          find_text(doc, situation, <<"EquipmentReason">>)),
                       find_text(doc, situation, <<"EnvironmentReason">>)),
         validity_start |-> IF period = NoElement THEN None
                            ELSE find_text(doc, period, <<"StartTime">>),
         validity_end |-> IF period = NoElement THEN None
                          ELSE find_text(doc, period, <<"EndTime">>),
         affected_stops |-> parse_affected_stops(doc, situation),
         affected_lines |-> parse_affected_lines(doc, situation),
         consequences |-> parse_consequences(doc, situation),
         audience |-> find_text(doc, situation, <<"Audience">>),
         report_type |-> find_text(doc, situation, <<"ReportType">>)]

parse_situation_number_only(doc, situation) ==
    LET situation_number == find_text(doc, situation, <<"SituationNumber">>)
        creation_time == find_text(doc, situation, <<"CreationTime">>)
    IN  IF ~Truthy(situation_number) THEN <<>>
        ELSE <<ServiceAlert(doc, situation, situation_number, creation_time)>>

\* _parse_situation: the list of the alert built, empty for None
parse_situation(doc, situation) ==
    LET situation_number == find_text(doc, situation, <<"SituationNumber">>)
        creation_time == find_text(doc, situation, <<"CreationTime">>)
    IN  IF ~Truthy(situation_number) \/ ~Truthy(creation_time) THEN <<>>
        ELSE <<ServiceAlert(doc, situation, situation_number, creation_time)>>

\* the elements the two loops of parse_siri_sx visit, in the order visited:
\* the PtSituationElement elements, then the RoadSituationElement elements
situation_elements(doc) ==
    iter_elements(doc, 1, "PtSituationElement")
    \o iter_elements(doc, 1, "RoadSituationElement")

\* parse_siri_sx(path, uri_strategy), path being the one file of paths:
\* tree = ET.parse(path) and the situation elements of its root
CallSiriSx ==
    /\ pc \in {"idle", "returned", "raised"}
    /\ runsLeft > 0
    /\ Len(paths) = 1
    /\ runsLeft' = runsLeft - 1
    /\ alerts' = new_list(alerts)
    /\ origin' = new_list(origin)
    /\ pathIdx' = 1 /\ jIdx' = 1
    /\ LET failed == parse(paths[1])
           found == IF paths[1].kind = "xml"
                    THEN situation_elements(paths[1].doc) ELSE <<>>
       IN  IF failed # NoError
           THEN /\ pc' = "raised"
                /\ error' = <<failed>>
                /\ results' = Append(results, Raised(failed))
                /\ journeys' = <<>>
           ELSE /\ error' = None
                /\ results' = results
                /\ journeys' = found
                /\ pc' = IF found = <<>> THEN "sx_return" ELSE "sx_situation"
    /\ UNCHANGED <<tree, xcall, raw, uri_strategy, calls, paths, connections,
                   service_date, positions>>

\* one iteration of either loop over the situation elements
Situation ==
    /\ pc = "sx_situation"
    /\ \E alert \in {parse_situation(paths[1].doc, journeys[jIdx])} :
           /\ alerts' = alerts \o alert
           /\ origin' = origin \o [k \in 1..Len(alert) |-> <<1, jIdx, 0>>]
    /\ jIdx' = jIdx + 1
    /\ pc' = IF jIdx < Len(journeys) THEN "sx_situation" ELSE "sx_return"
    /\ UNCHANGED <<tree, xcall, raw, uri_strategy, calls, paths, pathIdx, journeys,
                   connections, error, results, runsLeft, service_date, positions>>

\* return alerts
ReturnSx ==
    /\ pc = "sx_return"
    /\ pc' = "returned"
    /\ results' = Append(results, Returned(alerts))
    /\ UNCHANGED <<tree, xcall, raw, uri_strategy, calls, paths, pathIdx, journeys,
                   jIdx, connections, origin, error, runsLeft, service_date,
                   positions, alerts>>

NextSx == CallSiriSx \/ Situation \/ ReturnSx

----------------------------------------------------------------------------
(* Accessor harness: a bounded family of documents and one accessor call   *)

Ref1 == <<"r">>
Id1 == <<"i">>

\* what a node of the harness documents may be: tag and attribute values
NodeKinds ==
    {  [tag |-> Tag(NetexNs, "A"), ref |-> Ref1, id |-> Id1, text |-> <<" ", "t", " ">>],
       [tag |-> Tag(None, "A"), ref |-> None, id |-> Id1, text |-> <<"t">>],
       [tag |-> Tag(NetexNs, "B"), ref |-> <<>>, id |-> Id1, text |-> <<"t">>],
       [tag |-> Tag(None, "B"), ref |-> <<>>, id |-> None, text |-> <<"t", " ">>],
       [tag |-> Tag(None, "B"), ref |-> None, id |-> None, text |-> <<" ", " ">>],
       [tag |-> Tag(NetexNs, "C"), ref |-> None, id |-> <<>>, text |-> None],
       [tag |-> NonStrTag, ref |-> None, id |-> None, text |-> <<"t">>]  }

Node(k, d) == Element(k.tag, d, k.ref, k.id, None, k.text)

\* the documents of n nodes in document order: the root is an element at
\* depth 0, every later node is at most one level below the node before it,
\* and a comment has no children
RECURSIVE TreesOf(_)
TreesOf(n) ==
    IF n = 1 THEN {<<Node(k, 0)>> : k \in {x \in NodeKinds : x.tag.str}}
    ELSE UNION { {Append(t, Node(k, d)) :
                     k \in NodeKinds,
                     d \in 1..(IF t[n - 1].tag.str THEN t[n - 1].depth + 1
                               ELSE t[n - 1].depth)} :
                 t \in TreesOf(n - 1) }

HarnessTrees(n) == UNION {TreesOf(m) : m \in 1..n}

CandidateLists == {<<>>, <<"A">>, <<"B">>, <<"A", "B">>, <<"B", "A">>}

NoCall == [op |-> "none"]

\* values of the variables a harness does not use
IdleNetex ==
    /\ paths = <<>> /\ pc = "idle" /\ pathIdx = 0 /\ journeys = <<>> /\ jIdx = 0
    /\ connections = <<>> /\ origin = <<>> /\ error = None /\ results = <<>>
    /\ runsLeft = 0 /\ service_date = NoDate
    /\ positions = <<>> /\ alerts = <<>>

netexVars == <<paths, pc, pathIdx, journeys, jIdx, connections, origin, error,
               results, runsLeft, service_date, positions, alerts>>

InitXml ==
    /\ tree \in HarnessTrees(MaxNodes)
    /\ xcall = NoCall
    /\ raw = <<>> /\ uri_strategy = NoStrategy /\ calls = <<>>
    /\ IdleNetex

CallFindFirst ==
    /\ xcall = NoCall
    /\ \E e \in 1..Len(tree), names \in CandidateLists :
          /\ tree[e].tag.str
          /\ xcall' = [op |-> "find_first", elem |-> e, names |-> names,
                       result |-> find_first(tree, e, names)]
    /\ UNCHANGED <<tree, raw, uri_strategy, calls, netexVars>>

CallFindText ==
    /\ xcall = NoCall
    /\ \E e \in 1..Len(tree), names \in CandidateLists :
          /\ tree[e].tag.str
          /\ xcall' = [op |-> "find_text", elem |-> e, names |-> names,
                       result |-> find_text(tree, e, names)]
    /\ UNCHANGED <<tree, raw, uri_strategy, calls, netexVars>>

CallFindRef ==
    /\ xcall = NoCall
    /\ \E e \in 1..Len(tree), names \in CandidateLists :
          /\ tree[e].tag.str
          /\ xcall' = [op |-> "find_ref", elem |-> e, names |-> names,
                       result |-> find_ref(tree, e, names)]
    /\ UNCHANGED <<tree, raw, uri_strategy, calls, netexVars>>

NextXml == CallFindFirst \/ CallFindText \/ CallFindRef

SpecXml == InitXml /\ [][NextXml]_vars

----------------------------------------------------------------------------
(* URI harness: configuration documents, strategies and wrapper calls      *)

BaseH == <<"h">>
BaseG == <<"g">>

\* "{base_uri}/v2/{stop_id}"
TemplateV2 == <<"{", "base_uri", "}", "/", "v", "2", "/", "{", "stop_id", "}">>
\* "{baseUri}/q/{stopPlaceId}"
TemplateCamel == <<"{", "baseUri", "}", "/", "q", "/", "{", "stopPlaceId", "}">>
\* "{base_uri}/x": no placeholder for the identifier
TemplateConstant == <<"{", "base_uri", "}", "/", "x">>
\* "{base_uri}/{stopid}": a placeholder no wrapper supplies
TemplateUnsupplied == <<"{", "base_uri", "}", "/", "{", "stopid", "}">>
\* "{base_uri}/{departureTime\d\\}/{sequence}": the form the re.sub rewrites
TemplateDated ==
    <<"{", "base_uri", "}", "/", "{", "departureTime", "\\", "d", "\\", "\\", "}",
      "/", "{", "sequence", "}">>

Entry(key, value) == [key |-> key, value |-> value]

BaseEntries ==
    {Entry("baseUri", JStr(BaseH)), Entry("baseUri", JStr(<<>>)),
     Entry("base_uri", JStr(BaseG))}

TemplateEntries ==
    {Entry("stopPlace", JStr(TemplateCamel)), Entry("stopPlace", JStr(TemplateConstant)),
     Entry("stop_place", JStr(TemplateV2)), Entry("stop_place", JStr(TemplateUnsupplied)),
     Entry("stop_place", JStr(<<>>)),
     Entry("serviceJourney", JStr(TemplateConstant)),
     Entry("connection", JStr(TemplateDated)),
     Entry("my_key", JStr(TemplateV2))}

\* lists of at most n entries of E with pairwise distinct keys
EntryLists(E, n) ==
    UNION { {l \in [1..m -> E] :
                \A i, j \in 1..m : i # j => l[i].key # l[j].key} : m \in 0..n }

\* flat documents of at most n entries, and documents of at most one entry
\* followed by a "templates" object of at most n entries
JsonDocs(n) ==
    LET flat == EntryLists(BaseEntries \cup TemplateEntries, n)
        nested == EntryLists(BaseEntries \cup TemplateEntries, n)
        before == EntryLists(BaseEntries \cup TemplateEntries, 1)
    IN  flat \cup
        {b \o <<Entry("templates", JObj(t))>> : b \in before, t \in nested}

IdA == <<"a">>
IdB == <<"b">>
IdAB == <<"a", "b">>
Ids == {IdA, IdB, IdAB}

Date1 == <<"2", "0", "2", "6", "0", "2", "0", "5">>

InitJson ==
    /\ raw \in JsonDocs(MaxEntries)
    /\ uri_strategy = NoStrategy
    /\ calls = <<>>
    /\ tree = <<>> /\ xcall = NoCall
    /\ IdleNetex

\* strategy = URIStrategy.from_json(path), the file holding the document raw
LoadFromJson ==
    /\ uri_strategy = NoStrategy
    /\ uri_strategy' = from_json(raw)
    /\ UNCHANGED <<tree, xcall, raw, calls, netexVars>>

NextJson == LoadFromJson

SpecJson == InitJson /\ [][NextJson]_vars

\* the strategies loaded from the documents of one entry at each level
Strategies == {from_json(d) : d \in JsonDocs(1)}

InitUri ==
    /\ raw = <<>>
    /\ uri_strategy \in Strategies
    /\ calls = <<>>
    /\ tree = <<>> /\ xcall = NoCall
    /\ IdleNetex

Called(op, key, names, arg, res) ==
    /\ Len(calls) < MaxCalls
    /\ calls' = Append(calls, [op |-> op, key |-> key, names |-> names,
                               arg |-> arg, res |-> res])
    /\ UNCHANGED <<tree, xcall, raw, uri_strategy, netexVars>>

CallStop ==
    \E x \in Ids :
        Called("stop", "stop_place", {"stop_id", "stopPlaceId", "stop_place_id"},
               x, stop(uri_strategy, x))

CallLine ==
    Called("line", "line", {"line_id", "lineId"}, IdA, line(uri_strategy, IdA))

CallServiceJourney ==
    Called("service_journey", "service_journey",
           {"service_journey_id", "serviceJourneyId"}, IdA,
           service_journey(uri_strategy, IdA))

CallOperator ==
    Called("operator", "operator", {"operator_id", "operatorId"}, IdA,
           operator(uri_strategy, IdA))

CallConnection ==
    Called("connection", "connection",
           {"departure_date", "departureTime", "service_journey_id",
            "serviceJourneyId", "sequence"},
           IdA, connection(uri_strategy, Date1, IdA, 12))

\* _format called directly, with a key that may have no template at all
CallFormat ==
    \E key \in {"quay", "platform"} :
        Called("_format", key, {"quay_id"}, IdA,
               Format(uri_strategy, key, [k \in {"quay_id"} |-> IdA]))

NextUri ==
    \/ CallStop \/ CallLine \/ CallServiceJourney \/ CallOperator
    \/ CallConnection \/ CallFormat

SpecUri == InitUri /\ [][NextUri]_vars

----------------------------------------------------------------------------
(* Input documents of the timetable extractor                              *)
(*                                                                         *)
(* A journey is described by what it carries; its k-th visit gets the k-th *)
(* stop reference and times of the k-th minute, so that visits differ.     *)

StopRefs == <<<<"p">>, <<"q">>, <<"r">>, <<"s">>, <<"u">>>>

\* 2026-02-05T10:0k:00Z (departure) and 2026-02-05T10:0k:30Z (arrival)
TimeAt(k, seconds) ==
    <<"2", "0", "2", "6", "-", "0", "2", "-", "0", "5", "T", "1", "0", ":", "0",
      DigitChar(k), ":">> \o seconds \o <<"Z">>

Leaf(name, depth, ref, text) == Element(Tag(NetexNs, name), depth, ref, None, None, text)

Optional(present, nodes) == IF present THEN nodes ELSE <<>>

\* the k-th visit of a journey as a TimetabledPassingTime element
PassingTimeNodes(v, k) ==
    <<Leaf("TimetabledPassingTime", 2, None, None)>>
    \o Optional(v.seq # None, <<Leaf("SequenceNumber", 3, None, v.seq \o <<" ">>)>>)
    \o Optional(v.stop, <<Leaf("StopPointRef", 3, StopRefs[k], None)>>)
    \o Optional(v.dep, <<Leaf("DepartureTime", 3, None, TimeAt(k, <<"0", "0">>))>>)
    \o Optional(v.arr, <<Leaf("ArrivalTime", 3, None, TimeAt(k, <<"3", "0">>))>>)

\* the k-th visit of a journey as a Call element
CallNodes(v, k) ==
    <<Element(Tag(NetexNs, "Call"), 2, None, None, v.seq, None)>>
    \o Optional(v.stop, <<Leaf("ScheduledStopPointRef", 3, StopRefs[k], None)>>)
    \o Optional(v.arr, <<Leaf("Arrival", 3, None, None),
                         Leaf("Time", 4, None, TimeAt(k, <<"3", "0">>))>>)
    \o Optional(v.dep, <<Leaf("Departure", 3, None, None),
                         Leaf("Time", 4, None, TimeAt(k, <<"0", "0">>))>>)

RECURSIVE VisitNodes(_, _, _)
VisitNodes(style, visits, k) ==
    IF k > Len(visits) THEN <<>>
    ELSE (IF style = "call" THEN CallNodes(visits[k], k)
          ELSE PassingTimeNodes(visits[k], k))
         \o VisitNodes(style, visits, k + 1)

LineL == <<"l">>
OperatorO == <<"o">>

Visit(seq, stopPresent, dep, arr) == [seq |-> seq, stop |-> stopPresent, dep |-> dep, arr |-> arr]

\* a ServiceJourney element: a comment, then identifier, references, visits;
\* a journey of style "both" carries its visits as passing-time elements
\* and, after them, two complete Call elements at the stops s and u
JourneyNodes(j) ==
    <<Element(Tag(NetexNs, "ServiceJourney"), 1, None, j.id, None, None),
      Element(NonStrTag, 2, None, None, None, <<"c">>)>>
    \o Optional(j.idText # None, <<Leaf("ServiceJourneyId", 2, None, j.idText)>>)
    \o Optional(j.line, <<Leaf("LineRef", 2, LineL, None)>>)
    \o Optional(j.oper, <<Leaf("OperatorRef", 2, None, <<" ">> \o OperatorO)>>)
    \o VisitNodes(j.style, j.visits, 1)
    \o Optional(j.style = "both",
                CallNodes(Visit(None, TRUE, TRUE, TRUE), 4)
                \o CallNodes(Visit(None, TRUE, TRUE, TRUE), 5))

Document(journeyList) ==
    <<Element(Tag(NetexNs, "PublicationDelivery"), 0, None, None, None, None)>>
    \o Flatten([i \in 1..Len(journeyList) |-> JourneyNodes(journeyList[i])])

ListsUpTo(S, n) == UNION {[1..m -> S] : m \in 0..n}

JourneyDescription(id, idText, lineRef, oper, style, visits) ==
    [id |-> id, idText |-> idText, line |-> lineRef, oper |-> oper, style |-> style,
     visits |-> visits]

\* visits of the single-journey family: with a stop reference and no
\* sequence number, every presence of the two times; with the sequence
\* numbers "2" and "1"; without a stop reference, with no sequence number
\* and with the sequence text superscript two
RichVisits ==
    {Visit(None, TRUE, d, a) : d \in BOOLEAN, a \in BOOLEAN}
    \cup {Visit(<<"2">>, TRUE, TRUE, TRUE), Visit(<<"1">>, TRUE, TRUE, TRUE)}
    \cup {Visit(None, FALSE, TRUE, TRUE), Visit(<<"^2">>, FALSE, TRUE, TRUE)}

\* identified journeys of passing-time style with up to n visits
RichJourneys(n) ==
    {JourneyDescription(IdA, None, TRUE, FALSE, "passing", visits) :
        visits \in ListsUpTo(RichVisits, n)}

\* journeys with or without identifier, of either style, with up to n visits
ShortJourneys(n) ==
    {JourneyDescription(id, None, TRUE, FALSE, style, visits) :
        id \in {None, IdA}, style \in {"passing", "call"},
        visits \in ListsUpTo(RichVisits, n)}

\* identified journeys that carry up to n passing-time elements and two
\* Call elements
BothStyleJourneys(n) ==
    {JourneyDescription(IdA, None, TRUE, FALSE, "both", visits) :
        visits \in ListsUpTo(RichVisits, n)}

\* n complete visits without sequence number
PlainVisits(n) == [k \in 1..n |-> Visit(None, TRUE, TRUE, TRUE)]

\* journeys of the multi-file family: the longest journey, identified by
\* attribute; one identified by element, in Call style; and one with no
\* identifier
PlainJourneys ==
    {JourneyDescription(IdA, None, FALSE, TRUE, "passing", PlainVisits(MaxVisits)),
     JourneyDescription(None, IdB, FALSE, TRUE, "call", PlainVisits(2)),
     JourneyDescription(None, None, FALSE, TRUE, "passing", PlainVisits(2))}

BadFiles == {File("missing", <<>>), File("malformed", <<>>)}

\* the files holding exactly n journeys
FilesWith(n) ==
    {File("xml", Document(l)) : l \in [1..n -> PlainJourneys]}
    \cup (IF n = 0 THEN BadFiles ELSE {})

\* lists of at most nFiles files holding at most nJourneys journeys in all
RECURSIVE InputLists(_, _)
InputLists(nFiles, nJourneys) ==
    IF nFiles = 0 THEN {<<>>}
    ELSE {<<>>} \cup
         UNION { {<<f>> \o rest : f \in FilesWith(n),
                                  rest \in InputLists(nFiles - 1, nJourneys - n)} :
                 n \in 0..nJourneys }

OneJourney(J) == {<<File("xml", Document(<<j>>))>> : j \in J}

\* the default strategy, one loaded with a camelCase template, and one whose
\* stop template references a placeholder that stop() does not supply
StrategyDefault == URIStrategy(BaseH, DEFAULT_TEMPLATES)
StrategyCamel ==
    from_json(<<Entry("base_uri", JStr(BaseG)),
                Entry("templates", JObj(<<Entry("stopPlace", JStr(TemplateCamel))>>))>>)
StrategyUnsupplied == from_json(<<Entry("stop_place", JStr(TemplateUnsupplied))>>)

NetexStrategies == {StrategyDefault, StrategyCamel, StrategyUnsupplied}

IdleHarness == tree = <<>> /\ xcall = NoCall /\ raw = <<>> /\ calls = <<>>

IdleFrame ==
    /\ pc = "idle" /\ pathIdx = 0 /\ journeys = <<>> /\ jIdx = 0
    /\ connections = <<>> /\ origin = <<>> /\ error = None /\ results = <<>>
    /\ service_date = NoDate
    /\ positions = <<>> /\ alerts = <<>>

\* parse_netex called twice on a list of files
Init ==
    /\ IdleHarness /\ IdleFrame
    /\ paths \in InputLists(MaxFiles, MaxJourneys)
    /\ uri_strategy \in {StrategyDefault, StrategyUnsupplied}
    /\ runsLeft = 2

Spec == Init /\ [][Next]_vars

\* parse_netex called once on one file holding one journey
InitJourney ==
    /\ IdleHarness /\ IdleFrame
    /\ \/ /\ paths \in OneJourney(RichJourneys(MaxVisits))
                          \cup OneJourney(BothStyleJourneys(MaxVisits - 2))
          /\ uri_strategy = StrategyDefault
       \/ /\ paths \in OneJourney(ShortJourneys(MaxVisits - 1))
                          \cup {<<f>> : f \in BadFiles}
          /\ uri_strategy \in NetexStrategies
    /\ runsLeft = 1

SpecJourney == InitJourney /\ [][Next]_vars

----------------------------------------------------------------------------
(* Input documents of the estimated-timetable extractor                    *)
(*                                                                         *)
(* The k-th call of a journey has the k-th stop reference; call 1 has the  *)
(* aimed arrival 09:57, expected arrival 09:59, aimed departure 10:00 and  *)
(* expected departure 10:05, and each further call is ten minutes later.   *)

SiriNs == <<"s">>

SiriLeaf(name, depth, text) == Element(Tag(SiriNs, name), depth, None, None, None, text)

\* "10:tm:ss", the departure minute tm of call k being (k-1)m
DepartureClock(k, m, seconds) ==
    <<"1", "0", ":", DigitChar(k - 1), DigitChar(m), ":">> \o seconds

\* "09:5m:ss" for call 1 and "10:tm:ss" with t = k-2 for the others
ArrivalClock(k, m, seconds) ==
    (IF k = 1 THEN <<"0", "9", ":", "5">> ELSE <<"1", "0", ":", DigitChar(k - 2)>>)
    \o <<DigitChar(m), ":">> \o seconds

\* "2026-02-05T" before a time of day, "+00:00" and "Z" after it
OnDay(t) == <<"2", "0", "2", "6", "-", "0", "2", "-", "0", "5", "T">> \o t
Utc(t) == t \o <<"+", "0", "0", ":", "0", "0">>
Zulu(t) == t \o <<"Z">>

\* the four time texts of the k-th call, by the kind of the call:
\*   full       timestamps with date and offset
\*   timeonly   times of day with offset
\*   mixed      aimed timestamps with offset, expected ones without
\*   mixedtime  aimed times of day with offset, expected ones without
\*   garbage    expected values that are no timestamp
\*   aimedonly  no expected values
\*   early      expected values 30.6 seconds before the aimed ones
\*   nostop     as full, without stop reference
\*   untimed    no time value at all
EstimatedTimes(kind, k) ==
    LET aa == ArrivalClock(k, 7, <<"0", "0">>)
        ea == ArrivalClock(k, 9, <<"0", "0">>)
        ad == DepartureClock(k, 0, <<"0", "0">>)
        ed == DepartureClock(k, 5, <<"0", "0">>)
        T(a, b, c, d) == [aimed_arrival |-> a, expected_arrival |-> b,
                          aimed_departure |-> c, expected_departure |-> d]
    IN  CASE kind = "timeonly" -> T(Utc(aa), Utc(ea), Utc(ad), Utc(ed))
          [] kind = "mixed" -> T(Zulu(OnDay(aa)), OnDay(ea), Zulu(OnDay(ad)), OnDay(ed))
          [] kind = "mixedtime" -> T(Utc(aa), ea, Utc(ad), ed)
          [] kind = "garbage" -> T(Zulu(OnDay(aa)), <<"x">>, Zulu(OnDay(ad)), <<"x">>)
          [] kind = "aimedonly" -> T(Zulu(OnDay(aa)), None, Zulu(OnDay(ad)), None)
          [] kind = "untimed" -> T(None, None, None, None)
          [] kind = "early" ->
                T(Zulu(OnDay(ea)),
                  Zulu(OnDay(ArrivalClock(k, 8, <<"2", "9", ".", "4", "0", "0">>))),
                  Zulu(OnDay(ed)),
                  Zulu(OnDay(DepartureClock(k, 4, <<"2", "9", ".", "4", "0", "0">>))))
          [] OTHER -> T(Zulu(OnDay(aa)), Zulu(OnDay(ea)), Zulu(OnDay(ad)), Zulu(OnDay(ed)))

EstimatedKinds ==
    {"full", "timeonly", "mixed", "mixedtime", "garbage", "aimedonly", "early", "nostop"}

\* the k-th call of a journey as an EstimatedCall element
EstimatedCallNodes(kind, k) ==
    LET t == EstimatedTimes(kind, k)
    IN  <<SiriLeaf("EstimatedCall", 3, None)>>
        \o Optional(kind # "nostop", <<SiriLeaf("StopPointRef", 4, StopRefs[k])>>)
        \o <<SiriLeaf("AimedArrivalTime", 4, t.aimed_arrival)>>
        \o Optional(t.expected_arrival # None,
                    <<SiriLeaf("ExpectedArrivalTime", 4, t.expected_arrival)>>)
        \o <<SiriLeaf("AimedDepartureTime", 4, t.aimed_departure)>>
        \o Optional(t.expected_departure # None,
                    <<SiriLeaf("ExpectedDepartureTime", 4, t.expected_departure)>>)
        \o <<SiriLeaf("DepartureStatus", 4, <<"d">>)>>

\* an EstimatedVehicleJourney element with the calls of the given kinds
EstimatedJourneyNodes(ref, kinds) ==
    <<SiriLeaf("EstimatedVehicleJourney", 1, None),
      SiriLeaf("LineRef", 2, LineL)>>
    \o Optional(ref # None, <<SiriLeaf("DatedVehicleJourneyRef", 2, ref)>>)
    \o <<SiriLeaf("EstimatedCalls", 2, None)>>
    \o Flatten([k \in 1..Len(kinds) |-> EstimatedCallNodes(kinds[k], k)])

EstimatedDocument(journeyList) ==
    <<SiriLeaf("Siri", 0, None)>>
    \o Flatten([i \in 1..Len(journeyList) |->
                    EstimatedJourneyNodes(journeyList[i].ref, journeyList[i].kinds)])

EstimatedJourneyOf(ref, kinds) == [ref |-> ref, kinds |-> kinds]

\* one journey of up to n calls of the given kinds; a journey of three
\* calls; a journey without reference; two journeys; journeys with a call
\* that has no time value; no journey; a file that is missing
EstimatedInputs(kinds, n) ==
    {<<File("xml", EstimatedDocument(<<EstimatedJourneyOf(IdA, l)>>))>> :
        l \in ListsUpTo(kinds, n)}
    \cup {<<File("xml", EstimatedDocument(l))>> :
            l \in {<<>>,
                   <<EstimatedJourneyOf(IdA, <<"timeonly", "early", "full">>)>>,
                   <<EstimatedJourneyOf(None, <<"full", "full">>)>>,
                   <<EstimatedJourneyOf(IdA, <<"untimed", "full">>)>>,
                   <<EstimatedJourneyOf(IdA, <<"full", "untimed", "full">>)>>,
                   <<EstimatedJourneyOf(IdA, <<"full", "early">>),
                     EstimatedJourneyOf(IdB, <<"timeonly", "full">>)>>}}
    \cup {<<File("missing", <<>>)>>}

\* parse_siri_et called twice on one file
InitEt ==
    /\ IdleHarness /\ IdleFrame
    /\ paths \in EstimatedInputs(EstimatedKinds \ {"nostop"}, MaxVisits - 1)
    /\ uri_strategy = StrategyDefault
    /\ runsLeft = 2

SpecEt == InitEt /\ [][NextEt]_vars

----------------------------------------------------------------------------
(* Both extractors on journeys whose timestamps may fail to parse          *)

\* a timestamp, a text that is none, and a date followed by such a text
LegTimes == {TimeAt(1, <<"0", "0">>), <<"x">>, OnDay(<<"x">>)}

\* the k-th visit: a passing time with both times of the given text
TimedVisitNodes(time, k) ==
    <<Leaf("TimetabledPassingTime", 2, None, None),
      Leaf("StopPointRef", 3, StopRefs[k], None),
      Leaf("DepartureTime", 3, None, time),
      Leaf("ArrivalTime", 3, None, time)>>

\* a document holding one journey whose visits have the given times
TimedDocument(times) ==
    <<Element(Tag(NetexNs, "PublicationDelivery"), 0, None, None, None, None),
      Element(Tag(NetexNs, "ServiceJourney"), 1, None, IdA, None, None)>>
    \o Flatten([k \in 1..Len(times) |-> TimedVisitNodes(times[k], k)])

\* 2026-2-5T10:00:00, a timestamp whose month and day have one digit
ShortDayTime ==
    <<"2", "0", "2", "6", "-", "2", "-", "5", "T", "1", "0", ":", "0", "0", ":", "0", "0">>

\* journeys with up to n visits timed by LegTimes, and journeys of two
\* visits of which the first is timed by ShortDayTime
TimedInputs(n) ==
    {<<File("xml", TimedDocument(times))>> : times \in ListsUpTo(LegTimes, n)}
    \cup {<<File("xml", TimedDocument(<<ShortDayTime, t>>))>> :
              t \in LegTimes \cup {ShortDayTime}}

\* URIStrategy(base_uri="") whose stop template is "{base_uri}"
StrategyBare ==
    URIStrategy(<<>>, Put(DEFAULT_TEMPLATES, "stop_place", JStr(<<"{", "base_uri", "}">>)))

\* three calls of which the second has no stop reference
StopMissingInTheMiddle == <<"full", "nostop", "full">>

\* parse_netex or parse_siri_et called once on one file
InitLegs ==
    /\ IdleHarness /\ IdleFrame
    /\ paths \in TimedInputs(MaxVisits)
                  \cup EstimatedInputs({"full", "garbage", "mixed", "nostop"},
                                       MaxVisits - 1)
                  \cup {<<File("xml", EstimatedDocument(
                                          <<EstimatedJourneyOf(IdA, StopMissingInTheMiddle)>>))>>}
    /\ uri_strategy \in {StrategyDefault, StrategyBare}
    /\ runsLeft = 1

NextLegs == Next \/ NextEt

SpecLegs == InitLegs /\ [][NextLegs]_vars

----------------------------------------------------------------------------
(* Input documents of the vehicle-monitoring extractor                     *)

\* an element that is absent, holds white space only, or holds a text
Maybe(name, depth, text) ==
    IF text = None THEN <<>> ELSE <<SiriLeaf(name, depth, text)>>

Blank == <<" ">>

\* what an activity carries: the texts of its elements (None for an absent
\* element), whether it has a journey element and a location element
ActivityOf(recorded, journey, vref, vmr, item, location, lat, lon, monitored, congestion) ==
    [recorded |-> recorded, journey |-> journey, vref |-> vref, vmr |-> vmr,
     item |-> item, location |-> location, lat |-> lat, lon |-> lon,
     monitored |-> monitored, congestion |-> congestion]

\* a VehicleActivity element; without a journey element the vehicle
\* reference is a child of the activity itself
ActivityNodes(a) ==
    <<SiriLeaf("VehicleActivity", 1, None)>>
    \o Maybe("RecordedAtTime", 2, a.recorded)
    \o Maybe("VehicleMonitoringRef", 2, a.vmr)
    \o Maybe("ItemIdentifier", 2, a.item)
    \o (IF ~a.journey THEN Maybe("VehicleRef", 2, a.vref)
        ELSE <<SiriLeaf("MonitoredVehicleJourney", 2, None)>>
             \o Maybe("VehicleRef", 3, a.vref)
             \o Optional(a.location,
                         <<SiriLeaf("VehicleLocation", 3, None)>>
                         \o Maybe("Latitude", 4, a.lat)
                         \o Maybe("Longitude", 4, a.lon))
             \o Maybe("Monitored", 3, a.monitored)
             \o Maybe("InCongestion", 3, a.congestion))

VehicleDocument(activities) ==
    <<SiriLeaf("Siri", 0, None)>>
    \o Flatten([i \in 1..Len(activities) |-> ActivityNodes(activities[i])])

RecordedText == TimeAt(1, <<"0", "0">>)
VehicleV == <<"v">>
VehicleW == <<"w">>
VehicleX == <<"x">>
Lat599 == <<"5", "9", ".", "9">>
Lon107 == <<"1", "0", ".", "7">>
NotANumber == <<"n", "o", "t", "-", "a", "-", "n", "u", "m", "b", "e", "r">>
TrueText == <<"t", "r", "u", "e">>

\* texts of a coordinate element: absent, numbers, and texts float() rejects
CoordinateTexts ==
    {None, Lat599, NotANumber, <<"n", "a", "n">>, <<"1", "e">>, <<"-", ".", "5", "e", "1">>}

\* texts of a marker element
MarkerTexts ==
    {None, Blank, TrueText, <<"T", "r", "u", "e">>, <<"f", "a", "l", "s", "e">>,
     <<"1">>, <<"y", "e", "s">>}

\* activities that differ in what admission looks at
AdmissionActivities ==
    {ActivityOf(recorded, journey, vref, vmr, item, TRUE, Lat599, Lon107, TrueText, None) :
        recorded \in {None, Blank, RecordedText}, journey \in BOOLEAN,
        vref \in {None, VehicleV}, vmr \in {None, Blank, VehicleW},
        item \in {None, VehicleX}}

\* admitted activities that differ in their location
LocatedActivities ==
    {ActivityOf(RecordedText, TRUE, VehicleV, None, None, TRUE, lat, lon, TrueText, None) :
        lat \in CoordinateTexts, lon \in CoordinateTexts}
    \cup {ActivityOf(RecordedText, TRUE, VehicleV, None, None, FALSE, None, None,
                     TrueText, None)}

\* admitted activities that differ in their markers
MarkedActivities ==
    {ActivityOf(RecordedText, TRUE, VehicleV, None, None, TRUE, Lat599, Lon107,
                monitored, congestion) :
        monitored \in MarkerTexts, congestion \in {None, TrueText, <<"n", "o">>}}

\* activities of the documents that hold several
SomeActivities ==
    {ActivityOf(RecordedText, TRUE, VehicleV, None, None, TRUE, Lat599, Lon107,
                TrueText, None),
     ActivityOf(None, TRUE, VehicleV, None, None, TRUE, Lat599, Lon107, TrueText, None),
     ActivityOf(RecordedText, TRUE, None, None, VehicleX, TRUE, Lat599, NotANumber,
                None, None)}

\* documents of one activity, documents of up to n activities, and a file
\* that is missing
VehicleInputs(n) ==
    {<<File("xml", VehicleDocument(<<a>>))>> :
        a \in AdmissionActivities \cup LocatedActivities \cup MarkedActivities}
    \cup {<<File("xml", VehicleDocument(l))>> : l \in ListsUpTo(SomeActivities, n)}
    \cup {<<File("missing", <<>>)>>}

\* parse_siri_vm called once on one file
InitVm ==
    /\ IdleHarness /\ IdleFrame
    /\ paths \in VehicleInputs(MaxJourneys)
    /\ uri_strategy = StrategyDefault
    /\ runsLeft = 1

SpecVm == InitVm /\ [][NextVm]_vars

----------------------------------------------------------------------------
(* Input documents of the situation-exchange extractor                     *)

SituationN == <<"n", "1">>
SituationM == <<"n", "2">>

\* what a situation element carries: its tag, the texts of its number and
\* creation time (None for an absent element), and whether it says what it
\* affects
SituationOf(kind, number, creation, affects) ==
    [kind |-> kind, number |-> number, creation |-> creation, affects |-> affects]

\* a situation element; one that says what it affects names line L twice,
\* in an AffectedLine element and in a LineRef of its own, and one stop
SituationNodes(s) ==
    <<SiriLeaf(s.kind, 1, None)>>
    \o Maybe("SituationNumber", 2, s.number)
    \o Maybe("CreationTime", 2, s.creation)
    \o Optional(s.affects,
                <<SiriLeaf("ValidityPeriod", 2, None),
                  SiriLeaf("StartTime", 3, RecordedText),
                  SiriLeaf("Affects", 2, None),
                  SiriLeaf("AffectedLine", 3, None),
                  SiriLeaf("LineRef", 4, LineL),
                  SiriLeaf("LineRef", 3, LineL),
                  SiriLeaf("AffectedStopPoint", 3, None),
                  SiriLeaf("StopPointRef", 4, <<"s">>),
                  SiriLeaf("Location", 4, None),
                  SiriLeaf("Latitude", 5, Lat599),
                  SiriLeaf("Consequence", 2, None),
                  SiriLeaf("Severity", 3, <<"s", "e", "v", "e", "r", "e">>),
                  SiriLeaf("Blocking", 3, None),
                  SiriLeaf("JourneyPlanner", 4, TrueText)>>)

SituationDocument(situations) ==
    <<SiriLeaf("Siri", 0, None)>>
    \o Flatten([i \in 1..Len(situations) |-> SituationNodes(situations[i])])

\* a public-transport situation without number or creation time of its
\* own that contains a complete road situation
NestedSituationDocument ==
    <<SiriLeaf("Siri", 0, None),
      SiriLeaf("PtSituationElement", 1, None),
      SiriLeaf("RoadSituationElement", 2, None),
      SiriLeaf("SituationNumber", 3, SituationN),
      SiriLeaf("CreationTime", 3, RecordedText)>>

SituationKinds == {"PtSituationElement", "RoadSituationElement", "SituationElement"}

\* situations that differ in what admission looks at
AdmissionSituations ==
    {SituationOf(kind, number, creation, affects) :
        kind \in SituationKinds, number \in {None, Blank, SituationN},
        creation \in {None, Blank, RecordedText}, affects \in BOOLEAN}

\* situations of the documents that hold several
SomeSituations ==
    {SituationOf("PtSituationElement", SituationN, RecordedText, FALSE),
     SituationOf("PtSituationElement", SituationN, None, FALSE),
     SituationOf("RoadSituationElement", SituationM, RecordedText, TRUE),
     SituationOf("RoadSituationElement", None, RecordedText, FALSE)}

\* a line of a situation: an AffectedLine element around a LineRef element
\* (with the line's name and direction), or a LineRef element of its own;
\* the reference is the ref attribute or the text of the LineRef element
LineItem(wrapper, ref, text, name, dir) ==
    [wrapper |-> wrapper, ref |-> ref, text |-> text, name |-> name, dir |-> dir]

LineItemNodes(item, depth) ==
    IF item.wrapper
    THEN <<SiriLeaf("AffectedLine", depth, None),
           Element(Tag(SiriNs, "LineRef"), depth + 1, item.ref, None, None, item.text)>>
         \o Maybe("PublishedLineName", depth + 1, item.name)
         \o Maybe("DirectionRef", depth + 1, item.dir)
    ELSE <<Element(Tag(SiriNs, "LineRef"), depth, item.ref, None, None, item.text)>>

\* a complete situation whose lines stand below its Affects element, or
\* beside it
LinedSituationDocument(items, inside) ==
    <<SiriLeaf("Siri", 0, None),
      SiriLeaf("PtSituationElement", 1, None),
      SiriLeaf("SituationNumber", 2, SituationN),
      SiriLeaf("CreationTime", 2, RecordedText)>>
    \o (IF inside
        THEN <<SiriLeaf("Affects", 2, None)>>
             \o Flatten([i \in 1..Len(items) |-> LineItemNodes(items[i], 3)])
        ELSE Flatten([i \in 1..Len(items) |-> LineItemNodes(items[i], 2)])
             \o <<SiriLeaf("Affects", 2, None)>>)

LineName == <<"N">>
LineM == <<"m">>

\* wrappers of line l with and without name, with a padded ref attribute,
\* and without reference; bare references to l, padded, overridden by a ref
\* attribute, and blank
LineItems ==
    {LineItem(TRUE, None, LineL, LineName, <<"d">>),
     LineItem(TRUE, None, LineL, None, None),
     LineItem(TRUE, <<" ", "l">>, None, LineName, None),
     LineItem(TRUE, None, None, LineName, None),
     LineItem(FALSE, None, LineL, None, None),
     LineItem(FALSE, None, <<" ", "l", " ">>, None, None),
     LineItem(FALSE, LineM, LineL, None, None),
     LineItem(FALSE, None, Blank, None, None)}

\* documents of one situation, documents of up to n situations, documents
\* of one situation with up to n lines, and a file that is missing
SituationInputs(n) ==
    {<<File("xml", SituationDocument(<<s>>))>> : s \in AdmissionSituations}
    \cup {<<File("xml", SituationDocument(l))>> : l \in ListsUpTo(SomeSituations, n)}
    \cup {<<File("xml", LinedSituationDocument(l, inside))>> :
             l \in ListsUpTo(LineItems, n), inside \in BOOLEAN}
    \cup {<<File("xml", NestedSituationDocument)>>, <<File("missing", <<>>)>>}

\* parse_siri_sx called once on one file
InitSx ==
    /\ IdleHarness /\ IdleFrame
    /\ paths \in SituationInputs(MaxJourneys)
    /\ uri_strategy = StrategyDefault
    /\ runsLeft = 1

SpecSx == InitSx /\ [][NextSx]_vars

----------------------------------------------------------------------------
(* Properties of the accessors                                             *)

\* the parent of node j: the nearest earlier node of smaller depth
ParentOf(doc, j) ==
    LET above == {k \in 1..(j - 1) : doc[k].depth < doc[j].depth}
    IN  IF above = {} THEN NoElement
        ELSE CHOOSE k \in above : \A m \in above : m <= k

RECURSIVE IsDescendant(_, _, _)
IsDescendant(doc, j, e) ==
    LET p == ParentOf(doc, j)
    IN  p # NoElement /\ (p = e \/ IsDescendant(doc, p, e))

\* the descendant elements of e whose local name is one of the candidates
Matches(doc, e, names) ==
    {j \in 1..Len(doc) :
        /\ IsDescendant(doc, j, e)
        /\ doc[j].tag.str
        /\ \E n \in 1..Len(names) : doc[j].tag.name = names[n]}

\* C3: find_first returns the first descendant in document order whose local
\* name is any of the candidates, whatever the order of the candidates, and
\* the absent element when no descendant matches.
C3_FindFirstDocumentOrder ==
    xcall.op = "find_first" =>
        LET m == Matches(tree, xcall.elem, xcall.names)
        IN  IF m = {} THEN xcall.result = NoElement
            ELSE xcall.result \in m /\ \A j \in m : xcall.result <= j

\* a B element found for the candidates [A, B] although an A follows it
C3_Witness ==
    /\ xcall.op = "find_first"
    /\ xcall.names = <<"A", "B">>
    /\ xcall.result # NoElement
    /\ tree[xcall.result].tag.name = "B"
    /\ \E j \in Matches(tree, xcall.elem, xcall.names) :
          j > xcall.result /\ tree[j].tag.name = "A"

\* C4 as amended: find_ref returns the matched element's ref attribute if it
\* is present and non-empty, else its id attribute if present and non-empty,
\* else its trimmed text (absent if it has no text); absent if none matches.
C4_FindRefFallback ==
    xcall.op = "find_ref" =>
        LET m == Matches(tree, xcall.elem, xcall.names)
            c == CHOOSE j \in m : \A k \in m : j <= k
        IN  IF m = {} THEN xcall.result = None
            ELSE IF tree[c].ref \notin {None, <<>>} THEN xcall.result = tree[c].ref
            ELSE IF tree[c].id \notin {None, <<>>} THEN xcall.result = tree[c].id
            ELSE IF tree[c].text \in {None, <<>>} THEN xcall.result = None
            ELSE xcall.result = Strip(tree[c].text)

\* an empty ref attribute passed over in favour of the id attribute
C4_Witness ==
    /\ xcall.op = "find_ref"
    /\ xcall.result = Id1
    /\ \E j \in Matches(tree, xcall.elem, xcall.names) :
          /\ \A k \in Matches(tree, xcall.elem, xcall.names) : j <= k
          /\ tree[j].ref = <<>>

\* C4 as stated: the ref attribute is returned whenever it is present.
C4_RefWheneverPresent ==
    xcall.op = "find_ref" =>
        LET m == Matches(tree, xcall.elem, xcall.names)
            c == CHOOSE j \in m : \A k \in m : j <= k
        IN  IF m = {} THEN xcall.result = None
            ELSE IF tree[c].ref # None THEN xcall.result = tree[c].ref
            ELSE IF tree[c].id # None THEN xcall.result = tree[c].id
            ELSE IF tree[c].text \in {None, <<>>} THEN xcall.result = None
            ELSE xcall.result = Strip(tree[c].text)

----------------------------------------------------------------------------
(* Properties of the URI strategy                                          *)

\* the template _format resolves for a key: configured, else default, else ""
ResolvedTemplate(key) ==
    IF key \in DOMAIN uri_strategy.templates THEN uri_strategy.templates[key]
    ELSE IF key \in DOMAIN DEFAULT_TEMPLATES THEN DEFAULT_TEMPLATES[key]
    ELSE JStr(<<>>)

\* the names a text references as {name}
FieldNames(t) ==
    {t[i + 1] : i \in {k \in 1..(Len(t) - 2) : t[k] = "{" /\ t[k + 2] = "}"}}

EmptyTemplateCase(c) == ~JTruthy(ResolvedTemplate(c.key))

AbsentPlaceholderCase(c) ==
    /\ JTruthy(ResolvedTemplate(c.key))
    /\ ResolvedTemplate(c.key).kind = "string"
    /\ FieldNames(ResolvedTemplate(c.key).str) \ (c.names \cup {"base_uri", "baseUri"}) # {}

\* C5: an empty resolved template and a placeholder absent from the supplied
\* values both make the call fail, returning no URI, with one and the same
\* kind of configuration error.
C5_OneConfigurationErrorKind ==
    \A i, j \in 1..Len(calls) :
        LET failing(c) == EmptyTemplateCase(c) \/ AbsentPlaceholderCase(c)
        IN  /\ failing(calls[i]) =>
                 calls[i].res.err # NoError /\ calls[i].res.value = None
            /\ failing(calls[i]) /\ failing(calls[j]) =>
                 calls[i].res.err = calls[j].res.err

StopFields == {"stop_id", "stopPlaceId", "stop_place_id"}

StopCalls == {i \in 1..Len(calls) : calls[i].op = "stop" /\ calls[i].res.err = NoError}

\* C6 as stated: whatever the templates, stop gives equal identifiers the
\* same string and non-equal identifiers different strings.
C6_StopInjectiveForEveryTemplate ==
    \A i, j \in StopCalls :
        (calls[i].arg = calls[j].arg) <=> (calls[i].res.value = calls[j].res.value)

\* C6 as amended: the same holds when the stop_place template references the
\* stop identifier through one of the placeholders stop supplies; equal
\* identifiers give the same string under every template.
C6_StopInjective ==
    \A i, j \in StopCalls :
        /\ calls[i].arg = calls[j].arg => calls[i].res.value = calls[j].res.value
        /\ FieldNames(ResolvedTemplate("stop_place").str) \cap StopFields # {} =>
              (calls[i].arg # calls[j].arg => calls[i].res.value # calls[j].res.value)

\* two identifiers, one a prefix of the other, resolved under a custom template
C6_Witness ==
    /\ ResolvedTemplate("stop_place") = JStr(TemplateCamel)
    /\ \E i, j \in StopCalls :
          /\ calls[i].arg = IdA /\ calls[j].arg = IdAB
          /\ calls[i].res.value # calls[j].res.value

\* the key under which from_json stores a document key
Canonical(key) ==
    CASE key = "stopPlace" -> "stop_place"
      [] key = "serviceJourney" -> "service_journey"
      [] key = "baseUri" -> "base_uri"
      [] OTHER -> key

HasKey(entries, key) == \E i \in 1..Len(entries) : entries[i].key = key

ValueAt(entries, key) == entries[CHOOSE i \in 1..Len(entries) : entries[i].key = key].value

\* the entries from_json reads templates from: the object under "templates"
\* when there is a non-empty one, else the top-level object itself
TemplateSource ==
    IF HasKey(raw, "templates") /\ ValueAt(raw, "templates").obj # <<>>
    THEN ValueAt(raw, "templates").obj
    ELSE raw

\* C7: from_json takes the base URI from baseUri or base_uri and the templates
\* from the nested or the flat map; the template map is the defaults
\* overridden by the document's entries, camelCase template keys stored under
\* their snake_case key, unknown keys unaltered, unmentioned keys default.
C7_FromJsonMerge ==
    uri_strategy # NoStrategy =>
        LET src == TemplateSource
            last(n) == CHOOSE i \in 1..Len(src) :
                          /\ Canonical(src[i].key) = n
                          /\ \A k \in 1..Len(src) : Canonical(src[k].key) = n => k <= i
            mentioned == {Canonical(src[i].key) : i \in 1..Len(src)}
        IN  /\ uri_strategy.base_uri =
                  IF HasKey(raw, "baseUri") /\ ValueAt(raw, "baseUri").str # <<>>
                  THEN ValueAt(raw, "baseUri").str
                  ELSE IF HasKey(raw, "base_uri") /\ ValueAt(raw, "base_uri").str # <<>>
                       THEN ValueAt(raw, "base_uri").str
                       ELSE DefaultBaseUri
            /\ DOMAIN uri_strategy.templates = DOMAIN DEFAULT_TEMPLATES \cup mentioned
            /\ {"stopPlace", "serviceJourney"} \cap DOMAIN uri_strategy.templates = {}
            /\ \A n \in DOMAIN uri_strategy.templates :
                  uri_strategy.templates[n] =
                      IF n \in mentioned THEN src[last(n)].value ELSE DEFAULT_TEMPLATES[n]

\* a nested map with a camelCase key and an unknown key, base URI as base_uri
C7_Witness ==
    /\ uri_strategy # NoStrategy
    /\ HasKey(raw, "base_uri") /\ uri_strategy.base_uri = BaseG
    /\ HasKey(raw, "templates")
    /\ HasKey(ValueAt(raw, "templates").obj, "stopPlace")
    /\ HasKey(ValueAt(raw, "templates").obj, "my_key")
    /\ uri_strategy.templates["stop_place"] = JStr(TemplateCamel)
    /\ uri_strategy.templates["my_key"] = JStr(TemplateV2)
    /\ uri_strategy.templates["line"] = DEFAULT_TEMPLATES["line"]

----------------------------------------------------------------------------
(* Properties of the timetable extractor                                   *)

\* the ServiceJourney elements of the f-th file, in document order
JourneysOf(f) ==
    IF paths[f].kind = "xml" THEN iter_elements(paths[f].doc, 1, "ServiceJourney")
    ELSE <<>>

\* the journeys whose loop iteration the current call has completed
Processed ==
    {fj \in (1..Len(paths)) \X (1..MaxJourneys) :
        /\ fj[2] <= Len(JourneysOf(fj[1]))
        /\ fj[1] < pathIdx \/ (fj[1] = pathIdx /\ fj[2] < jIdx)}

\* the number of connections the current call emitted for a journey
EmittedFor(f, j) ==
    Cardinality({k \in 1..Len(origin) : origin[k][1] = f /\ origin[k][2] = j})

VisitsOf(f, j) == extract_passing_times(paths[f].doc, JourneysOf(f)[j]).times

HasIdentifier(f, j) == Truthy(journey_id(paths[f].doc, JourneysOf(f)[j]))

\* C1: a journey whose extraction yields N >= 1 visits gives at most N-1
\* connections, and exactly N-1 when every visit carries a stop reference
\* and a time to pair on; one visit gives none.
C1_PairingCompleteness ==
    \A fj \in Processed :
        LET visits == VisitsOf(fj[1], fj[2])
            N == Len(visits)
            complete == \A i \in 1..N :
                           /\ Truthy(visits[i].stop_ref)
                           /\ Truthy(visits[i].departure_time) \/ Truthy(visits[i].arrival_time)
        IN  HasIdentifier(fj[1], fj[2]) /\ N >= 1 =>
               /\ EmittedFor(fj[1], fj[2]) <= N - 1
               /\ complete => EmittedFor(fj[1], fj[2]) = N - 1

\* three visits, the middle one with an arrival time only, paired twice
C1_Witness ==
    /\ <<1, 1>> \in Processed
    /\ Len(VisitsOf(1, 1)) = 3
    /\ ~Truthy(VisitsOf(1, 1)[2].departure_time)
    /\ EmittedFor(1, 1) = 2

\* C2: two calls on the same files with the same strategy have the same
\* outcome: the same connections, field by field, in the same order.
C2_Deterministic ==
    Len(results) = 2 =>
        /\ results[1].err = results[2].err
        /\ results[1].err = NoError =>
              /\ Len(results[1].value) = Len(results[2].value)
              /\ \A k \in 1..Len(results[1].value) :
                    results[1].value[k] = results[2].value[k]

\* both calls returned connections of two files
C2_Witness ==
    /\ Len(results) = 2
    /\ results[2].err = NoError
    /\ Len(results[2].value) >= 2
    /\ \E k \in 1..Len(origin) : origin[k][1] = 2

LexLess(a, b) ==
    \/ a[1] < b[1]
    \/ a[1] = b[1] /\ a[2] < b[2]
    \/ a[1] = b[1] /\ a[2] = b[2] /\ a[3] < b[3]

\* C8: the connections appear in file order, within a file in journey order
\* and within a journey in pair order, each being the connection of its
\* journey and pair; a returning call has gone through every file and
\* returns that list.
C8_FilesInOrder ==
    /\ Len(origin) = Len(connections)
    /\ \A k \in 1..(Len(origin) - 1) : LexLess(origin[k], origin[k + 1])
    /\ \A k \in 1..Len(origin) :
          LET f == origin[k][1]
              id == journey_id(paths[f].doc, JourneysOf(f)[origin[k][2]])
              date == Or(date_for_uri(connections[k].departure_time), PlaceholderDate)
          IN  /\ connections[k].trip = service_journey(uri_strategy, id).value
              /\ connections[k].id =
                    connection(uri_strategy, date, id, origin[k][3]).value
    /\ pc = "returned" =>
          /\ pathIdx = Len(paths) + 1
          /\ results[Len(results)].err = NoError
          /\ results[Len(results)].value = connections

\* a returned list with the second pair of the first file's journey and a
\* connection of the second file
C8_Witness ==
    /\ pc = "returned"
    /\ \E k \in 1..Len(origin) : origin[k] = <<1, 1, 2>>
    /\ \E k \in 1..Len(origin) : origin[k][1] = 2

InputErrors == {<<"OSError">>, <<"XMLSyntaxError">>}

\* C9: a file that cannot be opened or is not well-formed makes the call
\* raise at that file: no later file is processed and no list is returned.
C9_FatalInputErrorPropagates ==
    \A f \in 1..Len(paths) :
        paths[f].kind # "xml" =>
            /\ pathIdx <= f
            /\ pc # "returned"
            /\ pc \in {"journey", "raised"} /\ pathIdx = f =>
                  /\ pc = "raised"
                  /\ error = IF paths[f].kind = "missing" THEN <<"OSError">>
                             ELSE <<"XMLSyntaxError">>
                  /\ results[Len(results)].err = error[1]
                  /\ results[Len(results)].value = None

\* the second file is not well-formed; the connections of the first are lost
C9_Witness ==
    /\ pc = "raised"
    /\ pathIdx = 2
    /\ paths[2].kind = "malformed"
    /\ connections # <<>>
    /\ results[Len(results)].value = None

\* a visit element of the journey that carries a stop reference
HasStopVisit(doc, sj) ==
    \E e \in Iter(doc, sj) :
        /\ local_name(doc[e].tag) \in PASSING_TIME_TAGS \cup {"Call"}
        /\ Truthy(find_ref(doc, e, STOP_REF_TAGS))

Incomplete(f, j) ==
    \/ ~HasIdentifier(f, j)
    \/ ~HasStopVisit(paths[f].doc, JourneysOf(f)[j])

\* C10: a journey with no identifier or with zero visits is skipped without
\* raising and contributes no connection; a document with no journey
\* contributes none.
C10_IncompleteJourneySkipped ==
    /\ \A fj \in Processed : Incomplete(fj[1], fj[2]) => EmittedFor(fj[1], fj[2]) = 0
    /\ pc = "raised" /\ error \notin InputErrors => ~Incomplete(pathIdx, jIdx)

----------------------------------------------------------------------------
(* Properties of the connections of both extractors                        *)

RanSiriEt == calls # <<>>

EstimatedJourneysOf ==
    IF paths[1].kind = "xml"
    THEN iter_elements(paths[1].doc, 1, "EstimatedVehicleJourney")
    ELSE <<>>

\* the resolved departure and arrival timestamp texts and the stop
\* references of pair p of journey j of the file
LegOf(j, p) ==
    IF RanSiriEt
    THEN LET est == extract_estimated_calls(paths[1].doc, EstimatedJourneysOf[j])
         IN  [dep |-> choose_time(est[p].expected_departure, est[p].aimed_departure),
              arr |-> choose_time(est[p + 1].expected_arrival, est[p + 1].aimed_arrival),
              from |-> est[p].stop_ref, to |-> est[p + 1].stop_ref]
    ELSE LET v == sort_passing_times(VisitsOf(1, j))
         IN  [dep |-> departure_time_of(v[p]), arr |-> arrival_time_of(v[p + 1]),
              from |-> v[p].stop_ref, to |-> v[p + 1].stop_ref]

\* the number of pairs of journey j of the file
PairsOf(j) ==
    IF RanSiriEt
    THEN Len(extract_estimated_calls(paths[1].doc, EstimatedJourneysOf[j])) - 1
    ELSE Len(VisitsOf(1, j)) - 1

\* a timestamp text some strategy of the running extractor parses
Parses(t) ==
    IF RanSiriEt THEN normalize_time(t, service_date) # NoDateTime
    ELSE date_for_uri(t) # None

\* an exception raised inside the loop over the pairs of a journey
RaisedInJourney == pc = "raised" /\ error \notin InputErrors

\* what raises in a journey is a pair with stops whose timestamps parse
ParsedPairRaised ==
    RaisedInJourney =>
        \E p \in 1..PairsOf(jIdx) :
            LET leg == LegOf(jIdx, p)
            IN  /\ Parses(leg.dep) /\ Parses(leg.arr)
                /\ Truthy(leg.from) /\ Truthy(leg.to)

\* C12 as stated: in both extractors, a pair whose resolved departure or
\* arrival timestamp no strategy parses gives no Connection and raises no
\* error.
C12_UnparsableTimestampSkipsLeg ==
    /\ \A k \in 1..Len(origin) :
          LET leg == LegOf(origin[k][2], origin[k][3])
          IN  Parses(leg.dep) /\ Parses(leg.arr)
    /\ ParsedPairRaised

\* the first ten characters of t have the form YYYY-MM-DD
DateForm(t) ==
    /\ Len(t) >= 10
    /\ AllDecimal(t, 1, 4) /\ t[5] = "-" /\ AllDecimal(t, 6, 7) /\ t[8] = "-"
    /\ AllDecimal(t, 9, 10)

\* t has a date at its head, or is too short for one and no timestamp
UriDateKnown(t) ==
    \/ DateForm(t)
    \/ Len(t) < 10 /\ ~FromIsoFormatAccepts(Replace(t, "Z", <<"+", "0", "0", ":", "0", "0">>))

\* the date in the id of a connection of the timetable extractor whose
\* departure timestamp is such a text: the digits of the date at its head,
\* else the placeholder
UriDateOf(t) ==
    IF DateForm(t) THEN SubSeq(t, 1, 4) \o SubSeq(t, 6, 7) \o SubSeq(t, 9, 10)
    ELSE <<"0", "0", "0", "0", "0", "0", "0", "0">>

\* C12 as amended: the estimated-timetable extractor gives no Connection
\* for a pair whose resolved departure or arrival timestamp no strategy
\* parses, and such a pair raises no error; the timetable extractor emits
\* the Connection of every pair that has both stops and both times, with
\* the timestamp texts as they are, its id dated by the first ten
\* characters of the departure timestamp if they have the form of a date
\* and by 00000000 if the timestamp is no timestamp and shorter than that.
C12_SkippedInEstimatedOnly ==
    /\ RanSiriEt =>
          /\ \A k \in 1..Len(origin) :
                LET leg == LegOf(origin[k][2], origin[k][3])
                IN  /\ normalize_time(leg.dep, service_date) # NoDateTime
                    /\ normalize_time(leg.arr, service_date) # NoDateTime
          /\ ParsedPairRaised
    /\ ~RanSiriEt =>
          \A fj \in Processed : \A p \in 1..PairsOf(fj[2]) :
              LET leg == LegOf(fj[2], p)
                  sj == JourneysOf(1)[fj[2]]
              IN  /\ HasIdentifier(1, fj[2])
                  /\ Truthy(leg.dep) /\ Truthy(leg.arr)
                  /\ Truthy(leg.from) /\ Truthy(leg.to)
                  => \E k \in 1..Len(origin) :
                        /\ origin[k] = <<1, fj[2], p>>
                        /\ connections[k].departure_time = leg.dep
                        /\ connections[k].arrival_time = leg.arr
                        /\ UriDateKnown(leg.dep) =>
                              connections[k].id =
                                  connection(uri_strategy, UriDateOf(leg.dep),
                                             journey_id(paths[1].doc, sj), p).value

\* parse_siri_et has returned no connection for two calls with stops, the
\* first of which has an expected departure that is no timestamp
C12_Witness ==
    /\ RanSiriEt /\ pc = "returned" /\ connections = <<>>
    /\ Len(EstimatedJourneysOf) = 1
    /\ PairsOf(1) = 1
    /\ Truthy(LegOf(1, 1).from) /\ Truthy(LegOf(1, 1).to)
    /\ LegOf(1, 1).dep = <<"x">>
    /\ normalize_time(LegOf(1, 1).arr, service_date) # NoDateTime

\* the connections the current call emitted for a journey, by position
ConnectionsOf(f, j) == {k \in 1..Len(origin) : origin[k][1] = f /\ origin[k][2] = j}

\* a journey whose visits all have a sequence number
AllSequenced(f, j) ==
    \A i \in 1..Len(VisitsOf(f, j)) : VisitsOf(f, j)[i].sequence # NoSequence

\* the seconds of an ISO timestamp text
Instant(t) == Seconds(FromIsoFormat(Replace(t, "Z", <<"+", "0", "0", ":", "0", "0">>)))

\* C13 as stated: for a journey that yields N >= 2 visits, all with a
\* sequence number, the departure timestamps of its connections are
\* non-decreasing in emission order.
C13_DepartureTimesNonDecreasing ==
    \A fj \in Processed :
        Len(VisitsOf(fj[1], fj[2])) >= 2 /\ AllSequenced(fj[1], fj[2]) =>
            \A k1, k2 \in ConnectionsOf(fj[1], fj[2]) :
                k1 < k2 => Instant(connections[k1].departure_time)
                             <= Instant(connections[k2].departure_time)

\* the sequence number of the visit a connection departs from: the visit
\* of the journey, in document order, whose stop is its departure stop
DepartureSequence(f, j, k) ==
    LET visits == VisitsOf(f, j)
        i == CHOOSE i \in 1..Len(visits) :
                 stop(uri_strategy, visits[i].stop_ref).value
                     = connections[k].departure_stop
    IN  visits[i].sequence

\* C13 as amended: for a journey that yields N >= 2 visits, all with a
\* sequence number, the sequence numbers of the visits its connections
\* depart from are non-decreasing in emission order.
C13_SequenceNonDecreasing ==
    \A fj \in Processed :
        Len(VisitsOf(fj[1], fj[2])) >= 2 /\ AllSequenced(fj[1], fj[2]) =>
            \A k1, k2 \in ConnectionsOf(fj[1], fj[2]) :
                k1 < k2 => DepartureSequence(fj[1], fj[2], k1)
                             <= DepartureSequence(fj[1], fj[2], k2)

\* three visits numbered 2, 1, 2 in the document, paired as 1-2 and 2-2
C13_Witness ==
    /\ <<1, 1>> \in Processed
    /\ Len(VisitsOf(1, 1)) = 3 /\ AllSequenced(1, 1)
    /\ VisitsOf(1, 1)[1].sequence > VisitsOf(1, 1)[2].sequence
    /\ Cardinality(ConnectionsOf(1, 1)) = 2

----------------------------------------------------------------------------
(* Properties of the estimated-timetable extractor                         *)

\* the calls of journey j of the file
EstimatedCallsOf(j) == extract_estimated_calls(paths[1].doc, EstimatedJourneysOf[j])

\* expected minus aimed in whole seconds, the fraction of a second dropped;
\* absent when either value is missing or does not parse
SignedSeconds(aimed, expected) ==
    LET a == normalize_time(aimed, service_date)
        e == normalize_time(expected, service_date)
        us == 1000000 * (Seconds(e) - Seconds(a)) + (e.us - a.us)
    IN  IF a = NoDateTime \/ e = NoDateTime THEN NoDelay
        ELSE IF us >= 0 THEN Delay(us \div 1000000)
        ELSE Delay(0 - ((0 - us) \div 1000000))

\* C14: for each emitted connection, departure_delay is the expected minus
\* the aimed departure of its departure call in seconds, and arrival_delay
\* the expected minus the aimed arrival of its arrival call, positive when
\* late and negative when early; a delay is absent exactly when its aimed
\* or its expected value is missing or does not parse.  Aimed
\* 10:00:00+00:00 with expected 10:05:00+00:00 gives 300.
C14_DelaySeconds ==
    \A k \in 1..Len(origin) :
        LET est == EstimatedCallsOf(origin[k][2])
            departure == est[origin[k][3]]
            arrival == est[origin[k][3] + 1]
        IN  /\ connections[k].departure_delay
                  = SignedSeconds(departure.aimed_departure, departure.expected_departure)
            /\ connections[k].arrival_delay
                  = SignedSeconds(arrival.aimed_arrival, arrival.expected_arrival)

\* a connection from a call with aimed departure 10:00:00+00:00 and expected
\* departure 10:05:00+00:00 to a call expected 30.6 seconds early
C14_Witness ==
    /\ pc = "returned" /\ Len(connections) = 1 /\ Len(EstimatedJourneysOf) = 1
    /\ EstimatedCallsOf(1)[1].aimed_departure
          = <<"1", "0", ":", "0", "0", ":", "0", "0", "+", "0", "0", ":", "0", "0">>
    /\ EstimatedCallsOf(1)[1].expected_departure
          = <<"1", "0", ":", "0", "5", ":", "0", "0", "+", "0", "0", ":", "0", "0">>
    /\ connections[1].departure_delay = Delay(300)
    /\ connections[1].arrival_delay = Delay(0 - 30)

\* the journeys whose loop iteration the current call of parse_siri_et has
\* completed
EstimatedProcessed ==
    {j \in 1..Len(EstimatedJourneysOf) :
        \/ pc \in {"et_return", "returned"}
        \/ pc \in {"et_journey", "raised"} /\ j < jIdx}

\* the time values the calls of journey j carry
TimeValuesOf(j) ==
    LET est == EstimatedCallsOf(j)
    IN  UNION {{est[i].aimed_arrival, est[i].expected_arrival,
                est[i].aimed_departure, est[i].expected_departure} :
               i \in 1..Len(est)} \ {None}

FullTimestamp(t) == FromIsoFormatAccepts(Replace(t, "Z", <<"+", "0", "0", ":", "0", "0">>))
TimeOfDay(t) == IsoTime(t) /\ ~FullTimestamp(t)

\* a document whose time values are all full timestamps has the same
\* outcome for every service date
FullTimestampsIgnoreDate ==
    (\A j \in 1..Len(EstimatedJourneysOf) : \A t \in TimeValuesOf(j) : FullTimestamp(t))
    => \A r1, r2 \in 1..Len(results) :
          /\ results[r1].err = results[r2].err
          /\ results[r1].value = results[r2].value

\* a journey whose time values are all times of day: with a service date
\* every pair with stops is emitted with its times on that date, without
\* one no pair is emitted; neither raises
TimesOfDayOnServiceDate ==
    \A j \in 1..Len(EstimatedJourneysOf) :
        (\A t \in TimeValuesOf(j) : TimeOfDay(t)) =>
            /\ ~(RaisedInJourney /\ jIdx = j)
            /\ j \in EstimatedProcessed /\ service_date = NoDate
                  => ConnectionsOf(1, j) = {}
            /\ j \in EstimatedProcessed /\ service_date # NoDate
                  => \A p \in 1..PairsOf(j) :
                        LET leg == LegOf(j, p)
                            on(t) == IsoFormat(DateTime(service_date.y, service_date.mo,
                                                        service_date.d, ParseClock(t)))
                        IN  Truthy(leg.from) /\ Truthy(leg.to) =>
                               \E k \in ConnectionsOf(1, j) :
                                   /\ origin[k][3] = p
                                   /\ connections[k].departure_time = on(leg.dep)
                                   /\ connections[k].arrival_time = on(leg.arr)

\* C15: in parse_siri_et a record whose time values are full timestamps is
\* resolved from them alone, so that the outcome is the same for every
\* service date, none included; a record carrying only times of day is
\* resolved by combining them with the service date, and without a
\* service date the pair using it is skipped without error.
C15_ServiceDate == FullTimestampsIgnoreDate /\ TimesOfDayOnServiceDate

----------------------------------------------------------------------------
(* Properties of the vehicle-monitoring extractor                          *)

ActivitiesOf ==
    IF paths[1].kind = "xml" THEN iter_elements(paths[1].doc, 1, "VehicleActivity")
    ELSE <<>>

\* the activities whose loop iteration the current call has completed
ActivitiesDone ==
    {j \in 1..Len(ActivitiesOf) :
        \/ pc \in {"vm_return", "returned"}
        \/ pc = "vm_activity" /\ j < jIdx}

\* the positions the current call built from activity j, by position
PositionsOf(j) == {k \in 1..Len(origin) : origin[k][2] = j}

\* the first element below e, in document order, with one of the names
FirstBelow(e, names) ==
    LET doc == paths[1].doc
        m == {i \in DescendantElements(doc, e) : local_name(doc[i].tag) \in names}
    IN  IF m = {} THEN NoElement ELSE CHOOSE i \in m : \A k \in m : i <= k

\* the trimmed text of that element; None if there is none or it is empty
TextBelow(e, names) ==
    LET i == FirstBelow(e, names)
    IN  IF i = NoElement THEN None
        ELSE IF ~Truthy(paths[1].doc[i].text) THEN None
        ELSE IF Strip(paths[1].doc[i].text) = <<>> THEN None
        ELSE Strip(paths[1].doc[i].text)

\* the vehicle identifier of an activity: the vehicle reference below its
\* journey element, else its monitoring reference or item identifier
IdentifierOf(a) ==
    LET journey == FirstBelow(a, {"MonitoredVehicleJourney"})
        direct == IF journey = NoElement THEN None
                  ELSE TextBelow(journey, {"VehicleRef"})
    IN  IF direct # None THEN direct
        ELSE TextBelow(a, {"VehicleMonitoringRef", "ItemIdentifier"})

\* C16 as stated: an activity yields exactly one VehiclePosition if and
\* only if it has a recorded-at timestamp and a vehicle identifier is found,
\* as the direct vehicle reference or else through the monitoring reference
\* or the item identifier; otherwise it yields none.
C16_AdmittedIffRecordedAndIdentified ==
    \A j \in ActivitiesDone :
        LET a == ActivitiesOf[j]
            vehicle == TextBelow(a, {"VehicleRef"})
            fallback == TextBelow(a, {"VehicleMonitoringRef", "ItemIdentifier"})
            admitted == /\ TextBelow(a, {"RecordedAtTime"}) # None
                        /\ vehicle # None \/ fallback # None
        IN  Cardinality(PositionsOf(j)) = IF admitted THEN 1 ELSE 0

\* C16 as amended: an activity yields exactly one VehiclePosition if and
\* only if it has a recorded-at timestamp, contains a MonitoredVehicleJourney
\* element, and a vehicle identifier is found, as the vehicle reference
\* below that element or else as the text of the first monitoring reference
\* or item identifier of the activity; otherwise it yields none.  The
\* position carries that timestamp and that identifier.
C16_AdmittedIffJourneyRecordedAndIdentified ==
    \A j \in ActivitiesDone :
        LET a == ActivitiesOf[j]
            admitted == /\ TextBelow(a, {"RecordedAtTime"}) # None
                        /\ FirstBelow(a, {"MonitoredVehicleJourney"}) # NoElement
                        /\ IdentifierOf(a) # None
        IN  /\ Cardinality(PositionsOf(j)) = IF admitted THEN 1 ELSE 0
            /\ \A k \in PositionsOf(j) :
                  /\ positions[k].recorded_at = TextBelow(a, {"RecordedAtTime"})
                  /\ positions[k].vehicle_id = IdentifierOf(a)

\* an activity without vehicle reference, admitted by its item identifier
C16_Witness ==
    /\ pc = "returned" /\ Len(ActivitiesOf) = 1 /\ Len(positions) = 1
    /\ TextBelow(ActivitiesOf[1], {"VehicleRef"}) = None
    /\ TextBelow(ActivitiesOf[1], {"VehicleMonitoringRef"}) = None
    /\ positions[1].vehicle_id = VehicleX

\* C17: every VehiclePosition has latitude and longitude both present or
\* both absent; in particular latitude present implies longitude present.
C17_BothOrNeither ==
    \A k \in 1..Len(positions) : positions[k].latitude.none = positions[k].longitude.none

\* the texts of the latitude and longitude of an activity: those of the
\* first VehicleLocation below its journey element
CoordinateText(a, axis) ==
    LET journey == FirstBelow(a, {"MonitoredVehicleJourney"})
        m == IF journey = NoElement THEN {}
             ELSE {i \in Iter(paths[1].doc, journey) :
                      local_name(paths[1].doc[i].tag) = "VehicleLocation"}
    IN  IF m = {} THEN None
        ELSE TextBelow(CHOOSE i \in m : \A k \in m : i <= k, {axis})

MarkerText(a, name) ==
    LET journey == FirstBelow(a, {"MonitoredVehicleJourney"})
    IN  IF journey = NoElement THEN None ELSE TextBelow(journey, {name})

\* C19: in every VehiclePosition, monitored (and likewise in_congestion) is
\* true if and only if the marker element is present with text "true" in
\* any case, and false in every other case; it is never absent.
C19_BooleanCollapse ==
    \A j \in ActivitiesDone : \A k \in PositionsOf(j) :
        /\ positions[k].monitored
              = PyBool(Lower(MarkerText(ActivitiesOf[j], "Monitored")) = TrueText)
        /\ positions[k].in_congestion
              = PyBool(Lower(MarkerText(ActivitiesOf[j], "InCongestion")) = TrueText)

----------------------------------------------------------------------------
(* Properties of the situation-exchange extractor                          *)

\* the situation elements of the document, of either kind
SituationElements ==
    IF paths[1].kind # "xml" THEN {}
    ELSE {e \in DescendantElements(paths[1].doc, 1) :
             local_name(paths[1].doc[e].tag)
                 \in {"PtSituationElement", "RoadSituationElement"}}

\* the situation elements whose loop iteration the current call has completed
SituationsDone ==
    IF pc \in {"sx_return", "returned"} THEN SituationElements
    ELSE IF pc = "sx_situation" THEN {journeys[i] : i \in 1..(jIdx - 1)}
    ELSE {}

\* the alerts the current call built from situation element e, by position
AlertsOf(e) == {k \in 1..Len(origin) : journeys[origin[k][2]] = e}

HasNumberAndCreationTime(e) ==
    /\ TextBelow(e, {"SituationNumber"}) # None
    /\ TextBelow(e, {"CreationTime"}) # None

\* C20: parse_siri_sx yields one ServiceAlert for each situation element, of
\* either of the two kinds, that has both a situation number and a creation
\* time, and none for a situation element lacking either; every alert has a
\* non-empty situation_number and creation_time, those of its element.
C20_SituationAdmission ==
    /\ \A e \in SituationsDone :
          /\ Cardinality(AlertsOf(e)) = IF HasNumberAndCreationTime(e) THEN 1 ELSE 0
          /\ \A k \in AlertsOf(e) :
                /\ alerts[k].situation_number = TextBelow(e, {"SituationNumber"})
                /\ alerts[k].creation_time = TextBelow(e, {"CreationTime"})
    /\ \A k \in 1..Len(alerts) :
          /\ Truthy(alerts[k].situation_number)
          /\ Truthy(alerts[k].creation_time)
    /\ pc = "returned" /\ error = None =>
          /\ results[Len(results)] = Returned(alerts)
          /\ Len(alerts) = Cardinality({e \in SituationElements :
                                           HasNumberAndCreationTime(e)})

\* a document of a public-transport situation without creation time and a
\* complete road situation: one alert, that of the road situation
C20_Witness ==
    /\ pc = "returned" /\ Cardinality(SituationElements) = 2 /\ Len(alerts) = 1
    /\ \E e \in SituationElements :
          /\ local_name(paths[1].doc[e].tag) = "PtSituationElement"
          /\ TextBelow(e, {"SituationNumber"}) # None
          /\ ~HasNumberAndCreationTime(e)
    /\ \E e \in SituationElements :
          /\ local_name(paths[1].doc[e].tag) = "RoadSituationElement"
          /\ AlertsOf(e) = {1}
          /\ alerts[1].situation_number = SituationM

\* the AffectedLine elements of situation element e
WrappersOf(e) ==
    {w \in Iter(paths[1].doc, e) : local_name(paths[1].doc[w].tag) = "AffectedLine"}

\* the LineRef elements of e that stand below an Affects element of e
BareRefsOf(e) ==
    LET doc == paths[1].doc
    IN  {c \in Iter(doc, e) :
            /\ local_name(doc[c].tag) = "LineRef"
            /\ \E a \in Iter(doc, e) :
                  local_name(doc[a].tag) = "Affects" /\ c \in Iter(doc, a)}

\* the reference a wrapper is discovered with, and the one a bare LineRef
\* element is discovered with
WrapperRef(w) == find_ref(paths[1].doc, w, <<"LineRef">>)
BareRef(c) == BareLine(paths[1].doc, c).line_ref

\* the entries of a list of affected lines that carry reference r
EntriesWith(lines, r) == {i \in 1..Len(lines) : lines[i].line_ref = r}

C29_NoTwoEntriesWithOneReference ==
    \A k \in 1..Len(alerts) :
        LET lines == alerts[k].affected_lines
        IN  \A i, j \in 1..Len(lines) : i # j => lines[i].line_ref # lines[j].line_ref

\* the records of the affected-line wrapper elements of e that have a
\* reference, in document order
WrapperRecords(e) ==
    LET ws == SetToSeq({w \in WrappersOf(e) : Truthy(WrapperRef(w))})
    IN  [i \in 1..Len(ws) |->
            [line_ref |-> WrapperRef(ws[i]),
             line_name |-> TextBelow(ws[i], {"PublishedLineName", "LineName"}),
             direction_ref |-> TextBelow(ws[i], {"DirectionRef"})]]

\* C29 as amended: the affected_lines of an alert begin with one entry for
\* each affected-line wrapper element that has a reference, in document
\* order, and every later entry, built from a bare line reference, has a
\* line_ref that no other entry of the list has; two entries have the same
\* line_ref only if both were built from wrapper elements.
C29_BareEntriesUnique ==
    \A e \in SituationsDone : \A k \in AlertsOf(e) :
        LET lines == alerts[k].affected_lines
            n == Len(WrapperRecords(e))
        IN  /\ Len(lines) >= n
            /\ SubSeq(lines, 1, n) = WrapperRecords(e)
            /\ \A j \in (n + 1)..Len(lines) :
                  /\ lines[j].line_name = None /\ Truthy(lines[j].line_ref)
                  /\ EntriesWith(lines, lines[j].line_ref) = {j}
            /\ \A c \in BareRefsOf(e) :
                  Truthy(BareRef(c)) => EntriesWith(lines, BareRef(c)) # {}

\* two wrappers of line l whose LineRef elements are also found as bare
\* references to l: the two wrapper records and nothing else
C29_Witness ==
    /\ pc = "returned" /\ Len(alerts) = 1
    /\ Len(alerts[1].affected_lines) = 2
    /\ alerts[1].affected_lines[1].line_ref = LineL
    /\ alerts[1].affected_lines[2].line_ref = LineL
    /\ alerts[1].affected_lines[1] # alerts[1].affected_lines[2]
    /\ \E e \in SituationElements : \E c \in BareRefsOf(e) : BareRef(c) = LineL

----------------------------------------------------------------------------
(* Properties of the pairing of visits                                     *)

\* the visits of a journey in the order they are paired
SortedVisitsOf(f, j) == sort_passing_times(VisitsOf(f, j))

\* the connections the current call emitted for pair p of a journey
ConnectionsOfPair(f, j, p) == {k \in ConnectionsOf(f, j) : origin[k][3] = p}

\* C22: for each adjacent pair (p, p+1) of the sorted visits of a journey,
\* the departure time is that of visit p, or its arrival time if it has no
\* departure time, and the arrival time is that of visit p+1, or its
\* departure time if it has no arrival time; the pair gives no connection
\* exactly when a resolved time or a stop reference is absent, and
\* otherwise one connection with these times and the URIs of the two stops.
C22_PairingRule ==
    \A fj \in Processed :
        HasIdentifier(fj[1], fj[2]) =>
            LET v == SortedVisitsOf(fj[1], fj[2])
            IN  /\ \A k \in ConnectionsOf(fj[1], fj[2]) : origin[k][3] \in 1..(Len(v) - 1)
                /\ \A p \in 1..(Len(v) - 1) :
                      LET dep == IF Truthy(v[p].departure_time)
                                 THEN v[p].departure_time ELSE v[p].arrival_time
                          arr == IF Truthy(v[p + 1].arrival_time)
                                 THEN v[p + 1].arrival_time ELSE v[p + 1].departure_time
                          ks == ConnectionsOfPair(fj[1], fj[2], p)
                      IN  IF /\ Truthy(dep) /\ Truthy(arr)
                             /\ Truthy(v[p].stop_ref) /\ Truthy(v[p + 1].stop_ref)
                          THEN /\ Cardinality(ks) = 1
                               /\ \A k \in ks :
                                     /\ connections[k].departure_time = dep
                                     /\ connections[k].arrival_time = arr
                                     /\ connections[k].departure_stop
                                            = stop(uri_strategy, v[p].stop_ref).value
                                     /\ connections[k].arrival_stop
                                            = stop(uri_strategy, v[p + 1].stop_ref).value
                          ELSE ks = {}

\* three visits: the first without times, the second with an arrival time
\* only, the third with a departure time only; the first pair is skipped
\* and the second is built from the two fallback times
C22_Witness ==
    /\ <<1, 1>> \in Processed
    /\ Len(SortedVisitsOf(1, 1)) = 3
    /\ ~Truthy(SortedVisitsOf(1, 1)[1].departure_time)
    /\ ~Truthy(SortedVisitsOf(1, 1)[1].arrival_time)
    /\ ~Truthy(SortedVisitsOf(1, 1)[2].departure_time)
    /\ ~Truthy(SortedVisitsOf(1, 1)[3].arrival_time)
    /\ ConnectionsOfPair(1, 1, 1) = {}
    /\ Cardinality(ConnectionsOfPair(1, 1, 2)) = 1

\* the visits in ascending sequence number, visits of one number in document
\* order: the first visit of the least number, then the rest likewise
RECURSIVE AscendingBySequence(_)
AscendingBySequence(visits) ==
    IF visits = <<>> THEN <<>>
    ELSE LET i == CHOOSE i \in 1..Len(visits) :
                      /\ \A k \in 1..Len(visits) : visits[i].sequence <= visits[k].sequence
                      /\ \A k \in 1..(i - 1) : visits[k].sequence > visits[i].sequence
         IN  <<visits[i]>> \o AscendingBySequence(SubSeq(visits, 1, i - 1)
                                                    \o SubSeq(visits, i + 1, Len(visits)))

\* the visits of a journey in the order of pairing: ascending sequence
\* number when every visit has one, document order otherwise
PairedVisitsOf(f, j) ==
    LET visits == VisitsOf(f, j)
    IN  IF \A i \in 1..Len(visits) : visits[i].sequence # NoSequence
        THEN AscendingBySequence(visits) ELSE visits

\* C23: when every visit of a journey has a sequence number, the connection
\* of pair p joins the p-th and (p+1)-th visits in ascending sequence
\* number; when at least one visit has none, it joins the p-th and
\* (p+1)-th visits in document order, whatever numbers the others carry.
C23_AllOrNothingSort ==
    \A fj \in Processed :
        ConnectionsOf(fj[1], fj[2]) # {} =>
            \A paired \in {PairedVisitsOf(fj[1], fj[2])} :
                \A k \in ConnectionsOf(fj[1], fj[2]) :
                    /\ origin[k][3] \in 1..(Len(paired) - 1)
                    /\ connections[k].departure_stop
                           = stop(uri_strategy, paired[origin[k][3]].stop_ref).value
                    /\ connections[k].arrival_stop
                           = stop(uri_strategy, paired[origin[k][3] + 1].stop_ref).value

\* three visits numbered 2, 1 and unnumbered, paired in document order:
\* the first connection leaves the visit numbered 2
C23_Witness ==
    /\ <<1, 1>> \in Processed
    /\ Len(VisitsOf(1, 1)) = 3
    /\ VisitsOf(1, 1)[1].sequence = 2
    /\ VisitsOf(1, 1)[2].sequence = 1
    /\ VisitsOf(1, 1)[3].sequence = NoSequence
    /\ Cardinality(ConnectionsOf(1, 1)) = 2

----------------------------------------------------------------------------
(* Properties of the two-tier extraction of visits                         *)

\* the stop references found below the elements of journey j named in
\* names, in document order, an element without stop reference left out
StopRefsBelow(f, j, names) ==
    LET doc == paths[f].doc
        els == IterList(doc, JourneysOf(f)[j])
        Referenced(e) == /\ local_name(doc[e].tag) \in names
                         /\ Truthy(find_ref(doc, e, STOP_REF_TAGS))
        kept == SelectSeq(els, Referenced)
    IN  [i \in 1..Len(kept) |-> find_ref(doc, kept[i], STOP_REF_TAGS)]

\* journey j holds an element of passing-time style
HasPassingTimeElement(f, j) ==
    \E i \in 1..Len(IterList(paths[f].doc, JourneysOf(f)[j])) :
        local_name(paths[f].doc[IterList(paths[f].doc, JourneysOf(f)[j])[i]].tag)
            \in PASSING_TIME_TAGS

InSeq(x, l) == \E i \in 1..Len(l) : l[i] = x

\* C24 as stated: a journey whose visits were extracted and that holds at
\* least one passing-time element has no visit built from a Call element.
C24_NoCallVisitBesidePassingTimes ==
    \A fj \in Processed :
        HasIdentifier(fj[1], fj[2]) /\ HasPassingTimeElement(fj[1], fj[2]) =>
            \A i \in 1..Len(VisitsOf(fj[1], fj[2])) :
                ~InSeq(VisitsOf(fj[1], fj[2])[i].stop_ref,
                       StopRefsBelow(fj[1], fj[2], {"Call"}))

\* C24 as amended: the visits extracted from a journey are built from its
\* passing-time elements that carry a stop reference, in document order,
\* and from nothing else when there is at least one; when there is none,
\* they are built from its Call elements that carry a stop reference.
C24_TwoTierExtraction ==
    \A fj \in Processed :
        HasIdentifier(fj[1], fj[2]) =>
        LET visits == VisitsOf(fj[1], fj[2])
            passing == StopRefsBelow(fj[1], fj[2], PASSING_TIME_TAGS)
            called == StopRefsBelow(fj[1], fj[2], {"Call"})
        IN  [i \in 1..Len(visits) |-> visits[i].stop_ref]
                = IF passing # <<>> THEN passing ELSE called

\* a journey with one passing-time element, which has no stop reference,
\* and two Call elements: the two visits come from the Call elements and
\* give one connection
C24_Witness ==
    /\ <<1, 1>> \in Processed
    /\ HasPassingTimeElement(1, 1)
    /\ StopRefsBelow(1, 1, PASSING_TIME_TAGS) = <<>>
    /\ Len(StopRefsBelow(1, 1, {"Call"})) = 2
    /\ Len(VisitsOf(1, 1)) = 2
    /\ Cardinality(ConnectionsOf(1, 1)) = 1

----------------------------------------------------------------------------
(* Properties of the sequence component of a connection id                 *)

\* the text of s after its last slash
AfterLastSlash(s) ==
    IF \A i \in 1..Len(s) : s[i] # "/" THEN s
    ELSE LET i == CHOOSE i \in 1..Len(s) :
                      s[i] = "/" /\ \A k \in (i + 1)..Len(s) : s[k] # "/"
         IN  SubSeq(s, i + 1, Len(s))

SequenceComponent(k) == AfterLastSlash(connections[k].id)

\* connection k carries the times of the visits at positions p and p + 1
\* of the list v (the time values of the visits of a journey all differ)
JoinsPair(v, k, p) ==
    /\ connections[k].departure_time
           = (IF Truthy(v[p].departure_time)
              THEN v[p].departure_time ELSE v[p].arrival_time)
    /\ connections[k].arrival_time
           = (IF Truthy(v[p + 1].arrival_time)
              THEN v[p + 1].arrival_time ELSE v[p + 1].departure_time)

\* C25: the last component of the id of a connection is the position,
\* counted from 1, of its pair in the list of visits as paired, whether or
\* not earlier pairs were skipped; within a journey the positions, and so
\* the components, strictly increase in emission order.
C25_SequenceIsPairPosition ==
    \A fj \in Processed :
        ConnectionsOf(fj[1], fj[2]) # {} =>
        \A v \in {PairedVisitsOf(fj[1], fj[2])} :
            LET ks == ConnectionsOf(fj[1], fj[2])
                position == [k \in ks |->
                                {p \in 1..(Len(v) - 1) : JoinsPair(v, k, p)}]
            IN  \A k \in ks :
                    /\ Cardinality(position[k]) = 1
                    /\ \A p \in position[k] : SequenceComponent(k) = StrOfInt(p)
                    /\ \A k2 \in ks :
                           k < k2 =>
                               /\ \A p \in position[k], p2 \in position[k2] : p < p2
                               /\ SequenceComponent(k) # SequenceComponent(k2)

\* three visits whose first pair is skipped: the only connection of the
\* journey joins the second and third visits and its id ends in 2
C25_Witness ==
    /\ <<1, 1>> \in Processed
    /\ Len(VisitsOf(1, 1)) = 3
    /\ Cardinality(ConnectionsOf(1, 1)) = 1
    /\ \A k \in ConnectionsOf(1, 1) :
           JoinsPair(PairedVisitsOf(1, 1), k, 2) /\ SequenceComponent(k) = <<"2">>

----------------------------------------------------------------------------
(* Properties of the date component of a connection id                     *)

\* the text of s before its last slash
BeforeLastSlash(s) ==
    IF \A i \in 1..Len(s) : s[i] # "/" THEN <<>>
    ELSE LET i == CHOOSE i \in 1..Len(s) :
                      s[i] = "/" /\ \A k \in (i + 1)..Len(s) : s[k] # "/"
         IN  SubSeq(s, 1, i - 1)

\* the component of a connection id that precedes the journey identifier
\* and the sequence
DateComponent(k) == AfterLastSlash(BeforeLastSlash(BeforeLastSlash(connections[k].id)))

EightDigits(s) == Len(s) = 8 /\ \A i \in 1..8 : s[i] \in DecimalChars

\* C26: the date component of the id of every connection that parse_netex
\* emits is eight digits: the date of the departure timestamp when it
\* parses, its first ten characters without dashes when they have the form
\* YYYY-MM-DD, and 00000000 otherwise.
C26_DateIsEightDigits ==
    ~RanSiriEt =>
        \A k \in 1..Len(connections) : EightDigits(DateComponent(k))

----------------------------------------------------------------------------
(* Properties of the choice between expected and aimed times               *)

\* the expected value when there is one, else the aimed value, else none
ExpectedElseAimed(expected, aimed) ==
    IF Truthy(expected) THEN expected ELSE IF Truthy(aimed) THEN aimed ELSE None

\* the timestamp a connection carries for a time text
Rendered(t) == IsoFormat(normalize_time(t, service_date))

\* C27: the departure time of a connection of parse_siri_et is the expected
\* departure of its first call when that call has one, else its aimed
\* departure; its arrival time is the expected arrival of its second call
\* when that call has one, else its aimed arrival; a pair with an endpoint
\* that has neither value gives no connection.
C27_ExpectedOverAimed ==
    RanSiriEt =>
        /\ \A k \in 1..Len(origin) :
               LET est == EstimatedCallsOf(origin[k][2])
                   departure == est[origin[k][3]]
                   arrival == est[origin[k][3] + 1]
                   dep == ExpectedElseAimed(departure.expected_departure,
                                            departure.aimed_departure)
                   arr == ExpectedElseAimed(arrival.expected_arrival,
                                            arrival.aimed_arrival)
               IN  /\ dep # None /\ arr # None
                   /\ connections[k].departure_time = Rendered(dep)
                   /\ connections[k].arrival_time = Rendered(arr)

\* one connection from a call whose expected and aimed departures differ,
\* carrying the expected one, to a call that has an aimed arrival only
C27_Witness ==
    /\ RanSiriEt /\ pc = "returned" /\ Len(connections) = 1
    /\ Len(EstimatedJourneysOf) = 1 /\ Len(EstimatedCallsOf(1)) = 2
    /\ Truthy(EstimatedCallsOf(1)[1].expected_departure)
    /\ Truthy(EstimatedCallsOf(1)[1].aimed_departure)
    /\ Rendered(EstimatedCallsOf(1)[1].expected_departure)
           # Rendered(EstimatedCallsOf(1)[1].aimed_departure)
    /\ connections[1].departure_time = Rendered(EstimatedCallsOf(1)[1].expected_departure)
    /\ ~Truthy(EstimatedCallsOf(1)[2].expected_arrival)
    /\ connections[1].arrival_time = Rendered(EstimatedCallsOf(1)[2].aimed_arrival)

\* three calls of which the second has no time value: neither pair gives a
\* connection
C27_WitnessUntimed ==
    /\ RanSiriEt /\ pc = "returned" /\ connections = <<>>
    /\ Len(EstimatedJourneysOf) = 1 /\ Len(EstimatedCallsOf(1)) = 3
    /\ ExpectedElseAimed(EstimatedCallsOf(1)[2].expected_arrival,
                          EstimatedCallsOf(1)[2].aimed_arrival) = None

----------------------------------------------------------------------------
(* Properties of the stop reference of a visit                             *)

\* the list of visits of journey j of the file that the running extractor
\* pairs
VisitListOf(j) == IF RanSiriEt THEN EstimatedCallsOf(j) ELSE VisitsOf(1, j)

JourneyCount ==
    IF RanSiriEt THEN Len(EstimatedJourneysOf)
    ELSE IF Len(paths) >= 1 THEN Len(JourneysOf(1)) ELSE 0

\* the calls of journey j that carry a stop reference
CallsWithStop(j) ==
    LET WithStop(c) == Truthy(c.stop_ref)
    IN  SelectSeq(EstimatedCallsOf(j), WithStop)

\* C28: in both extractors every visit of the list that is paired carries
\* a stop reference, a visit element without one being left out of the
\* list, and the visits on either side of such an element are paired with
\* each other: in the estimated-timetable extractor every two calls with a
\* stop reference that follow each other among the calls with one, and
\* whose times parse, give a connection.
C28_VisitsCarryStopReference ==
    /\ \A j \in 1..JourneyCount :
           \A i \in 1..Len(VisitListOf(j)) : Truthy(VisitListOf(j)[i].stop_ref)
    /\ RanSiriEt =>
           \A j \in EstimatedProcessed :
               LET kept == CallsWithStop(j)
               IN  \A p \in 1..(Len(kept) - 1) :
                       LET dep == ExpectedElseAimed(kept[p].expected_departure,
                                                    kept[p].aimed_departure)
                           arr == ExpectedElseAimed(kept[p + 1].expected_arrival,
                                                    kept[p + 1].aimed_arrival)
                       IN  /\ Truthy(TextBelow(EstimatedJourneysOf[j],
                                               {"DatedVehicleJourneyRef"}))
                           /\ normalize_time(dep, service_date) # NoDateTime
                           /\ normalize_time(arr, service_date) # NoDateTime
                           => \E k \in 1..Len(origin) :
                                  /\ origin[k][2] = j
                                  /\ connections[k].departure_time = Rendered(dep)
                                  /\ connections[k].arrival_time = Rendered(arr)

----------------------------------------------------------------------------
(* Properties of the delay computation                                     *)

\* C30: for every call of the document and the service date of the run,
\* _delay_seconds returns a number of seconds or nothing for the aimed and
\* expected values of each endpoint, and parse_siri_et does not raise
\* inside a journey.
C30_DelayNeverFails ==
    RanSiriEt =>
        /\ \A j \in 1..Len(EstimatedJourneysOf) :
               \A i \in 1..Len(EstimatedCallsOf(j)) :
                   LET c == EstimatedCallsOf(j)[i]
                   IN  /\ delay_seconds(c.aimed_departure, c.expected_departure,
                                        service_date).err = NoError
                       /\ delay_seconds(c.aimed_arrival, c.expected_arrival,
                                        service_date).err = NoError
        /\ ~RaisedInJourney

====
